---- MODULE Spec2Model ----
(***************************************************************************)
(* Tiered meeting-processing pipeline (backend/pipeline.py) and its        *)
(* namespace-partitioned Redis store (backend/vectorstore.py).             *)
(*                                                                         *)
(* Text is a sequence of tokens.  The external models (PII analyzer, LLM   *)
(* extractor, embedding model) are inputs: their outputs are drawn from    *)
(* small sets.  Timestamps produced by datetime.utcnow() are the abstract  *)
(* value "utcnow".                                                         *)
(***************************************************************************)
EXTENDS Integers, Sequences, FiniteSets, TLC

VARIABLES
    redis,            \* the shared Redis keyspace: key -> value (Nil = no such key)
    enable_redaction, \* MeetingPipeline.enable_redaction
    pc,               \* position of the running process() call
    t_in,             \* the transcript the caller passed to process()
    transcript,       \* process()'s local `transcript` (rebound by step 2)
    audit_log,        \* process()'s local `audit_log` list
    redaction_result, \* process()'s local `redaction_result`
    insights,         \* process()'s local `insights`
    sentiments,       \* process()'s local `sentiments`
    processed,        \* process()'s local `processed` (the returned record)
    port_calls,       \* the ports/store methods process() invoked, in order, with arguments
    redis_at_call,    \* the keyspace when the running process() call started
    foreign_writes,   \* TRUE once another caller wrote the keyspace during the call
    cl,               \* store clients: client -> frame of its add_meeting call
    n_ops,            \* number of operations (process, add, delete, search) started
    last_op,          \* the last store operation completed: [op, ns, id]
    srch,             \* frame of the running search_meetings()/search() call
    history           \* the calls a sequential caller completed, oldest first

vars == <<redis, enable_redaction, pc, t_in, transcript, audit_log, redaction_result,
          insights, sentiments, processed, port_calls, redis_at_call, foreign_writes,
          cl, n_ops, last_op, srch, history>>

pipeVars == <<pc, t_in, transcript, audit_log, redaction_result, insights, sentiments,
              processed, port_calls, redis_at_call, foreign_writes>>

-----------------------------------------------------------------------------
(* Bounds *)

MaxOps == 2

-----------------------------------------------------------------------------
(* models.py *)

\* Python's None for an optional value; Some(x) is a present value.
None == << >>
Some(x) == <<x>>
\* Python truthiness of an Optional[str]: None and "" are falsy.
Truthy(opt) == opt # None /\ opt[1] # << >>

ORDINARY == "ordinary"
SENSITIVE == "sensitive"
TierClassification == {ORDINARY, SENSITIVE}

\* meeting ids, in ascending (string) order
IdOrder == <<"m1", "m2", "m3">>
AllIds == {IdOrder[k] : k \in 1..Len(IdOrder)}
\* the ids given to process() and used by the concurrent callers
MeetingIds == {"m1", "m2"}

\* a datetime object; its isoformat() string is a different value
Datetime(d) == <<"datetime", d>>

Turn(ts, speaker, text) == [timestamp |-> ts, speaker |-> speaker, text |-> text]

\* MeetingTranscript: turns defaults to [], raw_text to None
MeetingTranscript(id, title, date, tier, participants, turns, raw_text) ==
    [meeting_id |-> id, title |-> title, date |-> date, tier |-> tier,
     participants |-> participants, turns |-> turns, raw_text |-> raw_text]

\* Pydantic validates a List field into a new list: the model holds a copy of
\* the list it was constructed from, equal to it at construction time.
ProcessedMeeting(id, tier, ins, sents, log) ==
    [meeting_id |-> id, tier |-> tier, insights |-> ins, sentiments |-> sents,
     vector_id |-> None, processed_at |-> Datetime("utcnow"), audit_log |-> log]

-----------------------------------------------------------------------------
(* Text: sequences of tokens *)

Min(a, b) == IF a < b THEN a ELSE b

Prefix(s, n) == SubSeq(s, 1, Min(Len(s), n))

RECURSIVE Flatten(_)
Flatten(ss) == IF ss = << >> THEN << >> ELSE Head(ss) \o Flatten(Tail(ss))

\* sep.join(parts) for sequences of token sequences
RECURSIVE Join(_, _)
Join(sep, parts) ==
    IF parts = << >> THEN << >>
    ELSE IF Len(parts) = 1 THEN parts[1]
    ELSE parts[1] \o <<sep>> \o Join(sep, Tail(parts))

Contains(s, tok) == \E i \in 1..Len(s) : s[i] = tok

\* index of the first occurrence of tok in s (0 when absent)
FirstIndex(s, tok) ==
    IF Contains(s, tok) THEN CHOOSE i \in 1..Len(s) : s[i] = tok /\ \A j \in 1..(i - 1) : s[j] # tok
    ELSE 0

\* the elements of a set of integers in ascending order
RECURSIVE Ascending(_)
Ascending(S) ==
    IF S = {} THEN << >>
    ELSE LET m == CHOOSE x \in S : \A y \in S : x <= y
         IN <<m>> \o Ascending(S \ {m})

-----------------------------------------------------------------------------
(* redaction.py: PIIRedactor *)

\* What the Presidio analyzer can recognise in a token (None: not an entity).
\* A placeholder such as <PERSON> is not itself an entity.
EntityTypeOf(tok) ==
    IF tok = "Alice" THEN "PERSON"
    ELSE IF tok = "a@x.com" THEN "EMAIL_ADDRESS"
    ELSE "O"

\* replacement_format.format(entity_type=...) with the default "<{entity_type}>"
Placeholder(entity_type) ==
    IF entity_type = "PERSON" THEN "<PERSON>" ELSE "<EMAIL_ADDRESS>"

\* the positions the analyzer may report: it finds any subset of the entities
Detectable(text) == {i \in 1..Len(text) : EntityTypeOf(text[i]) # "O"}

\* AnonymizerEngine.anonymize with one "replace" operator per entity type
Anonymize(text, analyzer_results) ==
    [i \in 1..Len(text) |->
        IF i \in analyzer_results THEN Placeholder(EntityTypeOf(text[i])) ELSE text[i]]

\* PIIRedactor.redact(text); analyzer_results is the analyzer's answer for text
Redact(text, analyzer_results) ==
    LET redacted_text == IF analyzer_results # {} THEN Anonymize(text, analyzer_results)
                         ELSE text
        found == Ascending(analyzer_results)
    IN [redacted_text |-> redacted_text,
        entities_found |-> [k \in 1..Len(found) |->
                               [type |-> EntityTypeOf(text[found[k]]),
                                start |-> found[k], end |-> found[k] + 1]],
        redaction_count |-> Cardinality(analyzer_results)]

\* a redact() that calls the anonymizer whatever the analyzer found
AnonymizerCalls_Always(analyzer_results) == 1

\* the calls of self.anonymizer.anonymize one redact() makes: `if analyzer_results:`
AnonymizerCalls(analyzer_results) == IF analyzer_results # {} THEN 1 ELSE 0

\* PIIRedactor.redact_transcript(transcript_text) with preserve_speakers=None
RedactTranscript(transcript_text, analyzer_results) ==
    Redact(transcript_text, analyzer_results)

-----------------------------------------------------------------------------
(* pipeline.py helpers *)

TurnLine(t) == <<"[", t.timestamp, "]", t.speaker, ":">> \o t.text

\* MeetingPipeline._turns_to_text
TurnsToText(turns) ==
    IF turns = << >> THEN << >>
    ELSE Join("\n", [k \in 1..Len(turns) |-> TurnLine(turns[k])])

\* a redacted transcript that keeps the original turns beside the redacted text
CreateRedactedTranscript_KeepsTurns(original, redacted_text) ==
    [original EXCEPT !.raw_text = Some(redacted_text)]

\* a step 2 that hands the original transcript on to extraction
CreateRedactedTranscript_Original(original, redacted_text) == original

\* MeetingPipeline._create_redacted_transcript: turns is not passed on, so the
\* new transcript has the model's default, the empty list
CreateRedactedTranscript(original, redacted_text) ==
    MeetingTranscript(original.meeting_id, original.title, original.date, original.tier,
                      original.participants, << >>, Some(redacted_text))

\* a choice of text that prefers the turns to raw_text
RawTextOf_TurnsFirst(t) ==
    IF t.turns # << >> THEN TurnsToText(t.turns)
    ELSE IF Truthy(t.raw_text) THEN t.raw_text[1] ELSE << >>

\* `transcript.raw_text or self._turns_to_text(transcript.turns)`
RawTextOf(t) == IF Truthy(t.raw_text) THEN t.raw_text[1] ELSE TurnsToText(t.turns)

-----------------------------------------------------------------------------
(* extractor.py: MeetingExtractor *)

ExtractorModel == "gpt-4o"

\* datetime.isoformat()
Isoformat(date) == <<"iso", date[2]>>

\* What the LLM call (instructor client) may return as MeetingInsights
LLMOutputs ==
    { [meeting_title |-> "llm title", meeting_date |-> None, summary |-> "s1",
       decisions |-> << [topic |-> "deploy", decision |-> "friday"] >>,
       action_items |-> << >>, key_topics |-> << >>, open_questions |-> << >>],
      [meeting_title |-> "llm title", meeting_date |-> Some(<<"llm date">>), summary |-> "s2",
       decisions |-> << >>,
       action_items |-> << [owner |-> "Bob", task |-> "notes", deadline |-> Some("fri"),
                            priority |-> None] >>,
       key_topics |-> << [name |-> "api", importance |-> "high"] >>,
       open_questions |-> << [question |-> "who"] >>] }

\* an extract() that returns the LLM's answer as it came
Extract_Unstamped(t, llm) == llm

\* MeetingExtractor.extract: the LLM's answer stamped with the transcript's
\* title and date
Extract(t, llm) ==
    [llm EXCEPT !.meeting_title = t.title,
                !.meeting_date = Some(Isoformat(t.date))]

\* the transcript text _build_context puts into the prompt: the turns when
\* there are any, else raw_text
ContextBody(t) ==
    IF t.turns # << >> THEN Join("\n", [k \in 1..Len(t.turns) |-> TurnLine(t.turns[k])])
    ELSE IF Truthy(t.raw_text) THEN t.raw_text[1]
    ELSE << >>

-----------------------------------------------------------------------------
(* sentiment.py: SentimentAnalyzer *)

TextsLimit == 10
ClassifierLimit == 512
PhraseMinWords == 3
PhraseWords == 8
PhraseLimit == 3

\* the star rating the BERT classifier gives a text
ClassifierStars(text) ==
    IF Contains(text, "bad") THEN 1
    ELSE IF Contains(text, "poor") THEN 2
    ELSE IF Contains(text, "nice") THEN 4
    ELSE IF Contains(text, "good") THEN 5
    ELSE 3

\* the calls of self.classifier one _analyze_speaker makes: none under
\* `if not texts:`
ClassifierCalls(texts) == IF texts = << >> THEN 0 ELSE 1

\* SentimentAnalyzer._extract_key_phrases
RECURSIVE ExtractKeyPhrasesFrom(_, _)
ExtractKeyPhrasesFrom(texts, phrases) ==
    IF texts = << >> THEN phrases
    ELSE LET words == Head(texts)
             phrase == Prefix(words, PhraseWords)
             added == IF Len(words) > PhraseMinWords /\ ~Contains(phrases, phrase)
                      THEN Append(phrases, phrase) ELSE phrases
         IN IF Len(added) >= PhraseLimit THEN added
            ELSE ExtractKeyPhrasesFrom(Tail(texts), added)

ExtractKeyPhrases(texts) == ExtractKeyPhrasesFrom(texts, << >>)

\* a mapping that puts two stars with the neutral ratings
StarsToSentiment_TwoNeutral(star_rating) ==
    IF star_rating < 2 THEN "negative"
    ELSE IF star_rating <= 3 THEN "neutral"
    ELSE "positive"

\* the label for a star rating (the if/elif/else of _analyze_speaker)
StarsToSentiment(star_rating) ==
    IF star_rating <= 2 THEN "negative"
    ELSE IF star_rating = 3 THEN "neutral"
    ELSE "positive"

\* SentimentAnalyzer._analyze_speaker
AnalyzeSpeaker(speaker, texts) ==
    IF texts = << >>
    THEN [speaker |-> speaker, overall_sentiment |-> "neutral", confidence |-> "0.0",
          key_phrases |-> << >>]
    ELSE LET combined_text == Join(" ", Prefix(texts, TextsLimit))
             star_rating == ClassifierStars(Prefix(combined_text, ClassifierLimit))
         IN [speaker |-> speaker, overall_sentiment |-> StarsToSentiment(star_rating),
             confidence |-> "score", key_phrases |-> ExtractKeyPhrases(texts)]

\* split("\n"): the lines of a text
RECURSIVE SplitLines(_)
SplitLines(text) ==
    LET i == FirstIndex(text, "\n")
    IN IF i = 0 THEN <<text>>
       ELSE <<SubSeq(text, 1, i - 1)>> \o SplitLines(SubSeq(text, i + 1, Len(text)))

\* a timestamp token such as 00:01 contains the character ':'
HasColon(tok) == tok \in {":", "00:01", "00:02"}

\* One line of SentimentAnalyzer._parse_raw_transcript: << >> when the line
\* is skipped, otherwise <<[speaker, text]>>
ParseLine(line) ==
    LET b == FirstIndex(line, "]")
        rest == SubSeq(line, b + 1, Len(line))
        c == FirstIndex(rest, ":")
    IN IF line = << >> \/ Head(line) = "---" THEN << >>
       ELSE IF b = 0 \/ ~(\E i \in 1..Len(line) : HasColon(line[i])) THEN << >>
       ELSE IF c = 0 THEN << >>
       ELSE << [speaker |-> SubSeq(rest, 1, c - 1),
                text |-> SubSeq(rest, c + 1, Len(rest))] >>

\* SentimentAnalyzer._parse_raw_transcript, as the list of (speaker, text)
\* pairs in line order
ParseRawTranscript(raw_text) ==
    LET lines == SplitLines(raw_text)
    IN Flatten([k \in 1..Len(lines) |-> ParseLine(lines[k])])

\* the (speaker, text) pairs analyze_meeting groups: from turns when there
\* are any, else parsed from raw_text
SpeakerTurns(t) ==
    IF t.turns # << >>
    THEN [k \in 1..Len(t.turns) |-> [speaker |-> <<t.turns[k].speaker>>,
                                      text |-> t.turns[k].text]]
    ELSE IF Truthy(t.raw_text) THEN ParseRawTranscript(t.raw_text[1])
    ELSE << >>

\* the keys of the speaker_turns dict in insertion order
RECURSIVE SpeakerOrder(_, _)
SpeakerOrder(pairs, seen) ==
    IF pairs = << >> THEN seen
    ELSE SpeakerOrder(Tail(pairs),
                      IF Contains(seen, Head(pairs).speaker) THEN seen
                      ELSE Append(seen, Head(pairs).speaker))

\* speaker_turns[speaker]
RECURSIVE TextsOf(_, _)
TextsOf(pairs, speaker) ==
    IF pairs = << >> THEN << >>
    ELSE (IF Head(pairs).speaker = speaker THEN <<Head(pairs).text>> ELSE << >>)
         \o TextsOf(Tail(pairs), speaker)

\* SentimentAnalyzer.analyze_meeting
AnalyzeMeeting(t) ==
    LET pairs == SpeakerTurns(t)
        speakers == SpeakerOrder(pairs, << >>)
    IN [k \in 1..Len(speakers) |-> AnalyzeSpeaker(speakers[k], TextsOf(pairs, speakers[k]))]

-----------------------------------------------------------------------------
(* vectorstore.py: MeetingVectorStore over one Redis keyspace *)

EmbedLimit == 8000
PreviewLimit == 200

\* json.dumps / json.loads
JsonDumps(v) == [json |-> v]
JsonLoads(raw) == raw.json

\* a record key that is not prefixed by the namespace
DataKey_NoNamespace(self_ns, meeting_id) == <<"meeting", ORDINARY, meeting_id>>

\* MeetingVectorStore._data_key / _emb_key / _index_key of the store whose
\* namespace is self_ns
DataKey(self_ns, meeting_id) == <<"meeting", self_ns, meeting_id>>
EmbKey(self_ns, meeting_id) == <<"emb", self_ns, meeting_id>>
IndexKey(self_ns) == <<"idx", self_ns>>

\* api.py: the key of the raw transcript stored beside a processed meeting
TranscriptKey(self_ns, meeting_id) == <<"transcript", self_ns, meeting_id>>

Keys == {DataKey(ns, id) : ns \in TierClassification, id \in AllIds}
        \cup {EmbKey(ns, id) : ns \in TierClassification, id \in AllIds}
        \cup {IndexKey(ns) : ns \in TierClassification}
        \cup {TranscriptKey(ns, id) : ns \in TierClassification, id \in AllIds}

\* Redis commands on a keyspace r
GET(r, k) == r[k]
SET(r, k, v) == [r EXCEPT ![k] = Some(v)]
DEL(r, k) == [r EXCEPT ![k] = None]
SMEMBERS(r, k) == IF r[k] = None THEN {} ELSE r[k][1]
SADD(r, k, m) == [r EXCEPT ![k] = Some(SMEMBERS(r, k) \cup {m})]
\* Redis deletes a set key when its last member is removed
SREM(r, k, m) ==
    [r EXCEPT ![k] = IF SMEMBERS(r, k) \ {m} = {} THEN None ELSE Some(SMEMBERS(r, k) \ {m})]

\* the sentence-transformers model with normalize_embeddings=True: every
\* embedding has the same norm (5 in this integer scaling)
EmbeddingModel(text) ==
    IF Contains(text, "s1") \/ Contains(text, "q1") THEN <<4, 3>>
    ELSE IF Contains(text, "s2") \/ Contains(text, "q2") THEN <<3, 4>>
    ELSE <<0, 5>>

\* MeetingVectorStore._get_embedding
GetEmbedding(text) == EmbeddingModel(Prefix(text, EmbedLimit))

\* MeetingVectorStore._meeting_to_document
MeetingToDocument(meeting) ==
    LET ins == meeting.insights
        decisions == [k \in 1..Len(ins.decisions) |->
                         <<"-", ins.decisions[k].topic, ":", ins.decisions[k].decision>>]
        actions == [k \in 1..Len(ins.action_items) |->
                       LET a == ins.action_items[k]
                       IN <<"-", a.owner, ":", a.task>>
                          \o (IF a.deadline # None THEN <<"(by", a.deadline[1], ")">> ELSE << >>)]
        topics == [k \in 1..Len(ins.key_topics) |->
                      <<"-", ins.key_topics[k].name, "(", ins.key_topics[k].importance, ")">>]
        questions == [k \in 1..Len(ins.open_questions) |->
                         <<"-", ins.open_questions[k].question>>]
        sections == << <<"Meeting:", ins.meeting_title>>, <<"Summary:", ins.summary>>,
                       <<"\n", "Decisions:">> >>
                    \o decisions \o << <<"\n", "Action Items:">> >> \o actions
                    \o << <<"\n", "Topics:">> >> \o topics
                    \o (IF ins.open_questions # << >>
                        THEN << <<"\n", "Open Questions:">> >> \o questions ELSE << >>)
    IN Join("\n", sections)

\* ProcessedMeeting.model_dump(mode="json")
ModelDump(meeting) == [meeting EXCEPT !.processed_at = Isoformat(@)]

\* a vector id without the namespace prefix
VectorId_IdOnly(ns, meeting_id) == <<meeting_id>>

\* f"{ns}_{meeting.meeting_id}"
VectorId(ns, meeting_id) == <<ns, "_", meeting_id>>

\* `namespace or self.namespace`
NsOrSelf(namespace, self_ns) == IF namespace # None THEN namespace[1] ELSE self_ns

\* a payload whose metadata title is taken from the wrong field
Payload_TitleFromSummary(self_ns, meeting, namespace) ==
    LET ns == NsOrSelf(namespace, self_ns)
    IN [document |-> MeetingToDocument(meeting),
        metadata |-> [meeting_id |-> meeting.meeting_id, tier |-> meeting.tier,
                      namespace |-> ns, processed_at |-> Isoformat(meeting.processed_at),
                      title |-> meeting.insights.summary],
        vector_id |-> VectorId(ns, meeting.meeting_id),
        processed_meeting |-> ModelDump(meeting)]

\* the payload add_meeting builds
Payload(self_ns, meeting, namespace) ==
    LET ns == NsOrSelf(namespace, self_ns)
    IN [document |-> MeetingToDocument(meeting),
        metadata |-> [meeting_id |-> meeting.meeting_id, tier |-> meeting.tier,
                      namespace |-> ns, processed_at |-> Isoformat(meeting.processed_at),
                      title |-> meeting.insights.meeting_title],
        vector_id |-> VectorId(ns, meeting.meeting_id),
        processed_meeting |-> ModelDump(meeting)]

\* an add whose batch sets the record without the index membership
AddRecordBatch_NoIndex(r, self_ns, meeting, namespace) ==
    SET(r, DataKey(self_ns, meeting.meeting_id),
        JsonDumps(Payload(self_ns, meeting, namespace)))

\* an add that also drops the other meetings of the same title
AddRecordBatch_ReplacesSameTitle(r, self_ns, meeting, namespace) ==
    LET added == SADD(SET(r, DataKey(self_ns, meeting.meeting_id),
                          JsonDumps(Payload(self_ns, meeting, namespace))),
                      IndexKey(self_ns), meeting.meeting_id)
        same == {id \in SMEMBERS(r, IndexKey(self_ns)) \ {meeting.meeting_id} :
                    /\ r[DataKey(self_ns, id)] # None
                    /\ JsonLoads(r[DataKey(self_ns, id)][1]).metadata.title
                          = meeting.insights.meeting_title}
    IN [k \in Keys |->
           IF \E id \in same : k \in {DataKey(self_ns, id), EmbKey(self_ns, id)} THEN None
           ELSE IF k = IndexKey(self_ns) THEN Some(SMEMBERS(added, k) \ same)
           ELSE added[k]]

\* add_meeting, first part: the MULTI/EXEC batch of SET record + SADD index
AddRecordBatch(r, self_ns, meeting, namespace) ==
    SADD(SET(r, DataKey(self_ns, meeting.meeting_id),
             JsonDumps(Payload(self_ns, meeting, namespace))),
         IndexKey(self_ns), meeting.meeting_id)

\* an embedding write that keeps an embedding already stored (SET NX)
AddEmbedding_KeepExisting(r, self_ns, meeting) ==
    IF GET(r, EmbKey(self_ns, meeting.meeting_id)) # None THEN r
    ELSE SET(r, EmbKey(self_ns, meeting.meeting_id),
             JsonDumps(GetEmbedding(MeetingToDocument(meeting))))

\* an add_meeting that never writes the embedding
AddEmbedding_Skipped(r, self_ns, meeting) == r

\* add_meeting, second part: the separate SET of the embedding
AddEmbedding(r, self_ns, meeting) ==
    SET(r, EmbKey(self_ns, meeting.meeting_id),
        JsonDumps(GetEmbedding(MeetingToDocument(meeting))))

\* a delete that leaves the record behind
DeleteBatch_KeepsRecord(r, self_ns, meeting_id) ==
    SREM(DEL(r, EmbKey(self_ns, meeting_id)), IndexKey(self_ns), meeting_id)

\* a delete that leaves the embedding key behind
DeleteBatch_KeepsEmbedding(r, self_ns, meeting_id) ==
    SREM(DEL(r, DataKey(self_ns, meeting_id)), IndexKey(self_ns), meeting_id)

\* delete_meeting: the MULTI/EXEC batch of DEL record, DEL embedding, SREM index
DeleteBatch(r, self_ns, meeting_id) ==
    SREM(DEL(DEL(r, DataKey(self_ns, meeting_id)), EmbKey(self_ns, meeting_id)),
         IndexKey(self_ns), meeting_id)

\* integer square root
ISqrt(n) == CHOOSE r \in 0..n : r * r <= n /\ (r + 1) * (r + 1) > n

Dot(a, b) == a[1] * b[1] + a[2] * b[2]

ScoreScale == 100

\* MeetingVectorStore._cosine_similarity, in hundredths
CosineSimilarity(a, b) ==
    LET denom == ISqrt(Dot(a, a)) * ISqrt(Dot(b, b))
    IN IF denom = 0 THEN 0 ELSE (Dot(a, b) * ScoreScale) \div denom

\* np.float32: the largest exponent of a finite value (below 2^128) and the
\* exponent of the smallest subnormal (2^-149)
F32MaxExp == 127
F32MinExp == 0 - 149

\* a float32 value: m * 2^e for an integer m, an infinity (m is its sign),
\* or NaN
F32Zero == [kind |-> "fin", m |-> 0, e |-> 0]
F32Inf(sign) == [kind |-> "inf", m |-> sign, e |-> 0]
F32NaN == [kind |-> "nan", m |-> 0, e |-> 0]

Abs(n) == IF n < 0 THEN 0 - n ELSE n
Sign(n) == IF n < 0 THEN 0 - 1 ELSE IF n = 0 THEN 0 ELSE 1

\* the number of binary digits of m
RECURSIVE BitLength(_)
BitLength(m) == IF m = 0 THEN 0 ELSE 1 + BitLength(m \div 2)

\* the float32 nearest to m * 2^e: an infinity from 2^128 on, zero up to
\* 2^-150, the value itself in between (exact for the small m used here at
\* normal exponents)
F32(m, e) ==
    IF m = 0 THEN F32Zero
    ELSE IF e + BitLength(Abs(m)) - 1 > F32MaxExp THEN F32Inf(Sign(m))
    ELSE IF e + BitLength(Abs(m)) < F32MinExp THEN F32Zero
    ELSE [kind |-> "fin", m |-> m, e |-> e]

\* x * y in float32
F32Mul(x, y) ==
    IF x.kind = "nan" \/ y.kind = "nan" THEN F32NaN
    ELSE IF x.kind = "inf" \/ y.kind = "inf"
         THEN IF x.m = 0 \/ y.m = 0 THEN F32NaN ELSE F32Inf(Sign(x.m) * Sign(y.m))
    ELSE F32(x.m * y.m, x.e + y.e)

\* x + y in float32, for finite terms of one exponent
F32Add(x, y) ==
    IF x.kind = "nan" \/ y.kind = "nan" THEN F32NaN
    ELSE IF x.kind = "inf" /\ y.kind = "inf"
         THEN IF x.m = y.m THEN x ELSE F32NaN
    ELSE IF x.kind = "inf" THEN x
    ELSE IF y.kind = "inf" THEN y
    ELSE IF x.m = 0 THEN y
    ELSE IF y.m = 0 THEN x
    ELSE F32(x.m + y.m, x.e)

\* sqrt(x) in float32, for x >= 0 an even power of two times a square
F32Sqrt(x) ==
    IF x.kind # "fin" THEN x
    ELSE IF x.m = 0 THEN F32Zero
    ELSE [kind |-> "fin", m |-> ISqrt(x.m), e |-> x.e \div 2]

\* a list of floats: the integer vector v.m times 2^v.e
VectorOf(m, e) == [m |-> m, e |-> e]

\* np.asarray(v, dtype=np.float32)[k]
F32Component(v, k) == F32(v.m[k], v.e)

\* np.dot(va, vb)
F32Dot(va, vb) ==
    F32Add(F32Mul(F32Component(va, 1), F32Component(vb, 1)),
           F32Mul(F32Component(va, 2), F32Component(vb, 2)))

\* np.linalg.norm(va), the square root of the float32 dot product
F32Norm(va) == F32Sqrt(F32Dot(va, va))

\* the Python float a call returns: a number in hundredths, or NaN
PyFloat(score) == [kind |-> "num", score |-> score]
PyNaN == [kind |-> "nan", score |-> 0]

\* float(x / y) for y # 0: finite operands have the same exponent here (the
\* dot product and the product of the norms of the same two vectors)
F32Quotient(x, y) ==
    IF x.kind = "nan" \/ y.kind = "nan" THEN PyNaN
    ELSE IF x.kind = "inf" THEN PyNaN
    ELSE IF y.kind = "inf" THEN PyFloat(0)
    ELSE PyFloat((x.m * ScoreScale) \div y.m)

\* MeetingVectorStore._cosine_similarity on float32 arrays, lines 70-75; for
\* vectors of exponent 0 it is CosineSimilarity
CosineSimilarityFloat32(a, b) ==
    LET denom == F32Mul(F32Norm(a), F32Norm(b))
    IN IF denom.kind = "fin" /\ denom.m = 0 THEN PyFloat(0)
       ELSE F32Quotient(F32Dot(a, b), denom)

\* a sort without reverse=True: ascending
RECURSIVE InsertByScore_Ascending(_, _)
InsertByScore_Ascending(sorted, r) ==
    IF sorted = << >> THEN <<r>>
    ELSE IF Head(sorted).score <= r.score
         THEN <<Head(sorted)>> \o InsertByScore_Ascending(Tail(sorted), r)
    ELSE <<r>> \o sorted

\* results.sort(key=score, reverse=True): a stable sort, descending
RECURSIVE InsertByScore(_, _)
InsertByScore(sorted, r) ==
    IF sorted = << >> THEN <<r>>
    ELSE IF Head(sorted).score >= r.score THEN <<Head(sorted)>> \o InsertByScore(Tail(sorted), r)
    ELSE <<r>> \o sorted

RECURSIVE SortByScore(_)
SortByScore(results) ==
    IF results = << >> THEN << >>
    ELSE InsertByScore(SortByScore(SubSeq(results, 1, Len(results) - 1)),
                       results[Len(results)])

\* one SearchResult of search()
SearchResult(mid, query_embedding, emb_raw, data_raw) ==
    LET data == JsonLoads(data_raw)
    IN [meeting_id |-> data.metadata.meeting_id,
        score |-> CosineSimilarity(query_embedding, JsonLoads(emb_raw)),
        content |-> data.document,
        metadata |-> data.metadata]

\* get_meeting
GetMeeting(r, self_ns, meeting_id) ==
    LET raw == GET(r, DataKey(self_ns, meeting_id))
    IN IF raw = None THEN None ELSE Some(JsonLoads(raw[1]))

\* a sort that puts the greatest id first
SortedIds_Descending(S) ==
    LET Member(x) == x \in S
        asc == SelectSeq(IdOrder, Member)
    IN [k \in 1..Len(asc) |-> asc[Len(asc) + 1 - k]]

\* sorted(meeting_ids)
SortedIds(S) == LET Member(x) == x \in S IN SelectSeq(IdOrder, Member)

\* list_meetings
ListMeetings(r, self_ns) ==
    LET ids == SortedIds(SMEMBERS(r, IndexKey(self_ns)))
    IN Flatten([k \in 1..Len(ids) |->
                  LET data == GetMeeting(r, self_ns, ids[k])
                  IN IF data # None THEN <<data[1].metadata>> ELSE << >>])

\* the orders in which iterating over a Redis set (smembers) may yield it
Orders(S) ==
    {o \in [1..Cardinality(S) -> S] : \A i, j \in 1..Cardinality(S) : i # j => o[i] # o[j]}

\* a test that skips an id only when its record is missing
Skips_OnlyMissingRecord(emb_raw, data_raw) == data_raw = None

\* line 155: `if not emb_raw or not data_raw: continue`
Skips(emb_raw, data_raw) == emb_raw = None \/ data_raw = None

\* search, lines 151-167: one result for every id that has both an embedding
\* and a record, in the iteration order of the ids
SearchResults(r, ns, query_embedding, order) ==
    Flatten([k \in 1..Len(order) |->
                LET emb_raw == GET(r, EmbKey(ns, order[k]))
                    data_raw == GET(r, DataKey(ns, order[k]))
                IN IF Skips(emb_raw, data_raw) THEN << >>
                   ELSE <<SearchResult(order[k], query_embedding, emb_raw[1], data_raw[1])>>])

\* s[:n]
SliceTo(s, n) == IF n >= 0 THEN Prefix(s, n) ELSE SubSeq(s, 1, Len(s) + n)

\* line 170: results[:n_results]
SearchCut(results, n_results) == SliceTo(results, n_results)

\* search; order is the iteration order of the index set
Search(r, self_ns, query, namespace, n_results, order) ==
    LET ns == NsOrSelf(namespace, self_ns)
        meeting_ids == SMEMBERS(r, IndexKey(ns))
    IN IF meeting_ids = {} THEN << >>
       ELSE SearchCut(SortByScore(SearchResults(r, ns, GetEmbedding(query), order)),
                      n_results)

\* a search that computes the query embedding before it looks at the index
SearchEmbedCalls_BeforeIndex(r, self_ns, namespace) == 1

\* the number of _get_embedding calls search makes: none when it returns at
\* line 147
SearchEmbedCalls(r, self_ns, namespace) ==
    IF SMEMBERS(r, IndexKey(NsOrSelf(namespace, self_ns))) = {} THEN 0 ELSE 1

-----------------------------------------------------------------------------
(* api.py: deduplicate_meetings *)

\* lines 407-417: one entry for every id of the index set that has a record,
\* in the iteration order of the ids
DedupEntries(r, self_ns, order) ==
    Flatten([k \in 1..Len(order) |->
                LET raw == GET(r, DataKey(self_ns, order[k]))
                IN IF raw = None THEN << >>
                   ELSE << [meeting_id |-> order[k],
                            title |-> JsonLoads(raw[1]).metadata.title,
                            processed_at |-> JsonLoads(raw[1]).metadata.processed_at] >>])

\* the order of two isoformat() strings: for the strings datetime.utcnow()
\* gives, the order of the instants
IsoGeq(a, b) == a[2] >= b[2]

\* a comparison that puts the oldest entry first
SortsBefore_Oldest(a, b) == IsoGeq(b.processed_at, a.processed_at)

\* entries.sort(key=processed_at, reverse=True): a stays before b
SortsBefore(a, b) == IsoGeq(a.processed_at, b.processed_at)

RECURSIVE InsertByProcessedAt(_, _)
InsertByProcessedAt(sorted, e) ==
    IF sorted = << >> THEN <<e>>
    ELSE IF SortsBefore(Head(sorted), e)
         THEN <<Head(sorted)>> \o InsertByProcessedAt(Tail(sorted), e)
    ELSE <<e>> \o sorted

\* line 420: a stable sort, latest first
RECURSIVE SortByProcessedAt(_)
SortByProcessedAt(entries) ==
    IF entries = << >> THEN << >>
    ELSE InsertByProcessedAt(SortByProcessedAt(SubSeq(entries, 1, Len(entries) - 1)),
                             entries[Len(entries)])

\* the keys of meetings_by_title in insertion order
RECURSIVE TitleOrder(_, _)
TitleOrder(entries, seen) ==
    IF entries = << >> THEN seen
    ELSE TitleOrder(Tail(entries),
                    IF Contains(seen, Head(entries).title) THEN seen
                    ELSE Append(seen, Head(entries).title))

\* meetings_by_title[title]
EntriesOf(entries, title) == LET Has(e) == e.title = title IN SelectSeq(entries, Has)

\* lines 419-426: the entries deleted in one store, entries[1:] of each title
Duplicates(entries) ==
    LET titles == TitleOrder(entries, << >>)
    IN Flatten([k \in 1..Len(titles) |->
                   Tail(SortByProcessedAt(EntriesOf(entries, titles[k])))])

\* lines 423-425: delete_meeting, then DEL of the transcript key
RemoveDuplicate(r, self_ns, meeting_id) ==
    DEL(DeleteBatch(r, self_ns, meeting_id), TranscriptKey(self_ns, meeting_id))

RECURSIVE RemoveDuplicates(_, _, _)
RemoveDuplicates(r, self_ns, dups) ==
    IF dups = << >> THEN r
    ELSE RemoveDuplicates(RemoveDuplicate(r, self_ns, Head(dups).meeting_id), self_ns,
                          Tail(dups))

\* one iteration of the loop over pipeline.stores, lines 403-426
DedupStore(acc, self_ns, order) ==
    LET entries == DedupEntries(acc.redis, self_ns, order)
        dups == Duplicates(entries)
    IN [redis |-> RemoveDuplicates(acc.redis, self_ns, dups),
        kept |-> acc.kept + Len(TitleOrder(entries, << >>)),
        removed |-> acc.removed + Len(dups)]

\* deduplicate_meetings: the ordinary store, then the sensitive store
Deduplicate(r, order_ordinary, order_sensitive) ==
    DedupStore(DedupStore([redis |-> r, kept |-> 0, removed |-> 0], ORDINARY, order_ordinary),
               SENSITIVE, order_sensitive)

-----------------------------------------------------------------------------
(* api.py: get_stats *)

\* a value json.loads() raises on
NotJson == [text |-> "not json"]

\* json.loads(raw) returns
Parses(raw) == "json" \in DOMAIN raw

\* lines 305-309 for one store: the parsed record of every id of the index
\* set that has one, in the iteration order of the ids
StoreRecords(r, self_ns, order) ==
    Flatten([k \in 1..Len(order) |->
                LET raw == GET(r, DataKey(self_ns, order[k]))
                IN IF raw # None THEN <<JsonLoads(raw[1])>> ELSE << >>])

\* a scan of the ordinary store only
AllMeetings_OrdinaryOnly(r, order_ordinary, order_sensitive) ==
    StoreRecords(r, ORDINARY, order_ordinary)

\* lines 303-309: all_meetings, the ordinary store then the sensitive store
AllMeetings(r, order_ordinary, order_sensitive) ==
    StoreRecords(r, ORDINARY, order_ordinary) \o StoreRecords(r, SENSITIVE, order_sensitive)

\* line 309: json.loads raises on a record of an index set
StatsRaises(r) ==
    \E ns \in TierClassification : \E id \in SMEMBERS(r, IndexKey(ns)) :
       LET raw == GET(r, DataKey(ns, id)) IN raw # None /\ ~Parses(raw[1])

\* vectorstore.py search, lines 158-160: json.loads raises on the embedding or
\* the record of an id that was not skipped at line 155
SearchRaises(r, self_ns, namespace) ==
    LET ns == NsOrSelf(namespace, self_ns)
    IN \E id \in SMEMBERS(r, IndexKey(ns)) :
          LET emb_raw == GET(r, EmbKey(ns, id))
              data_raw == GET(r, DataKey(ns, id))
          IN /\ emb_raw # None /\ data_raw # None
             /\ ~Parses(emb_raw[1]) \/ ~Parses(data_raw[1])

\* Counter(items): the count of every item that occurs
Counter(items) ==
    [x \in {items[k] : k \in 1..Len(items)} |->
        Cardinality({k \in 1..Len(items) : items[k] = x})]

RECURSIVE SumSeq(_)
SumSeq(ns) == IF ns = << >> THEN 0 ELSE Head(ns) + SumSeq(Tail(ns))

\* the action items, topics and sentiments of all meetings, in scan order
StatsActions(all) == Flatten([k \in 1..Len(all) |-> all[k].processed_meeting.insights.action_items])
StatsTopics(all) == Flatten([k \in 1..Len(all) |-> all[k].processed_meeting.insights.key_topics])
StatsSentiments(all) == Flatten([k \in 1..Len(all) |-> all[k].processed_meeting.sentiments])

\* lines 343-346: the priorities counted, `if p:`
StatsPriorities(actions) ==
    Flatten([k \in 1..Len(actions) |->
                IF Truthy(actions[k].priority) THEN <<actions[k].priority[1]>> ELSE << >>])

\* lines 347-349 and 355: speakers_set, every name as the text it is
StatsSpeakers(actions, sents) ==
    {<<actions[k].owner>> : k \in {j \in 1..Len(actions) : actions[j].owner # ""}}
       \cup {sents[k].speaker : k \in 1..Len(sents)}

\* lines 356-360: speaker_sentiments, per speaker the count of every label
StatsSpeakerSentiments(sents) ==
    [sp \in {sents[k].speaker : k \in 1..Len(sents)} |->
        [label \in {"positive", "neutral", "negative"} |->
            Cardinality({k \in 1..Len(sents) :
                           sents[k].speaker = sp /\ sents[k].overall_sentiment = label})]]

\* get_stats, lines 311-375, on the scanned records
Stats(r, order_ordinary, order_sensitive) ==
    LET all == AllMeetings(r, order_ordinary, order_sensitive)
        pm(k) == all[k].processed_meeting
        actions == StatsActions(all)
        topics == StatsTopics(all)
        sents == StatsSentiments(all)
    IN IF Len(all) = 0 THEN [total_meetings |-> 0]
       ELSE [total_meetings |-> Len(all),
             total_decisions |-> SumSeq([k \in 1..Len(all) |-> Len(pm(k).insights.decisions)]),
             total_actions |-> SumSeq([k \in 1..Len(all) |-> Len(pm(k).insights.action_items)]),
             total_questions |-> SumSeq([k \in 1..Len(all) |-> Len(pm(k).insights.open_questions)]),
             total_speakers |-> Cardinality(StatsSpeakers(actions, sents)),
             tier_breakdown |-> Counter([k \in 1..Len(all) |-> pm(k).tier]),
             sentiment_distribution |->
                 Counter([k \in 1..Len(sents) |-> sents[k].overall_sentiment]),
             top_topics |-> Counter([k \in 1..Len(topics) |-> topics[k].name]),
             priority_breakdown |-> Counter(StatsPriorities(actions)),
             speaker_sentiments |-> StatsSpeakerSentiments(sents)]

-----------------------------------------------------------------------------

(* Inputs *)

Participants == << [name |-> "Alice"] >>

TurnAlice == Turn("00:01", "Alice", <<"hi">>)
TurnBob == Turn("00:02", "Bob", <<"bad">>)

\* (turns, raw_text) of the transcripts given to process()
TranscriptBodies ==
    { [turns |-> << >>, raw_text |-> None],
      [turns |-> <<TurnAlice, TurnBob>>, raw_text |-> None],
      [turns |-> <<TurnBob>>,
       raw_text |-> Some(<<"[", "00:02", "]", "Bob", ":", "mail", "a@x.com">>)] }

Transcripts ==
    { MeetingTranscript(id, "Sprint", Datetime("2025-02-18"), tier, Participants, b.turns, b.raw_text) :
        id \in MeetingIds, tier \in TierClassification, b \in TranscriptBodies }

-----------------------------------------------------------------------------
(* pipeline.py: MeetingPipeline.process, one action per step *)

Timestamp == "utcnow"

\* an audit log that grows at the front
AuditAppend_Prepend(log, entry) == <<entry>> \o log

\* audit_log.append(entry)
AuditAppend(log, entry) == Append(log, entry)

\* a step 2 that forgets the tier test
NeedsRedaction_AnyTier(tier, enabled) == enabled

\* a step 2 that runs for every sensitive transcript
NeedsRedaction_IgnoresFlag(tier, enabled) == tier = SENSITIVE

\* MeetingPipeline.__init__, lines 40-41: self.redactor, constructed only
\* when redaction is enabled
Redactor(enabled) == IF enabled THEN Some("PIIRedactor") ELSE None

\* the condition of step 2
NeedsRedaction(tier, enabled) == tier = SENSITIVE /\ enabled

PortCall(port, arg, raised) == [port |-> port, arg |-> arg, raised |-> raised]

\* an orchestrator that retries a failed port once before giving up
Raise_Retry(port, arg) ==
    /\ pc' = "raised"
    /\ port_calls' = port_calls \o <<PortCall(port, arg, TRUE), PortCall(port, arg, TRUE)>>

\* an exception raised by a port leaves process(): nothing catches it
Raise(port, arg) ==
    /\ pc' = "raised"
    /\ port_calls' = Append(port_calls, PortCall(port, arg, TRUE))

\* lines 60-68: the call starts, step 1 records the tier
ProcessStart(t) ==
    /\ pc = "idle"
    /\ n_ops < MaxOps
    /\ n_ops' = n_ops + 1
    /\ pc' = "step2"
    /\ t_in' = Some(t)
    /\ transcript' = Some(t)
    /\ audit_log' = AuditAppend(<< >>, [step |-> "classification", tier |-> t.tier,
                                        timestamp |-> Timestamp])
    /\ port_calls' = << >>
    /\ redis_at_call' = redis
    /\ foreign_writes' = FALSE
    /\ UNCHANGED <<redis, enable_redaction, redaction_result, insights, sentiments,
                   processed, cl, last_op, srch, history>>

\* step 2 when the condition of line 72 is false
Step2Skip ==
    /\ pc = "step2"
    /\ ~NeedsRedaction(t_in[1].tier, enable_redaction)
    /\ pc' = "step3"
    /\ UNCHANGED <<redis, enable_redaction, t_in, transcript, audit_log, redaction_result,
                   insights, sentiments, processed, port_calls, redis_at_call,
                   foreign_writes, cl, n_ops, last_op, srch, history>>

\* step 2, lines 73-84
Step2Redact ==
    /\ pc = "step2"
    /\ NeedsRedaction(t_in[1].tier, enable_redaction)
    /\ LET raw_text == RawTextOf(transcript[1])
       IN \/ \E found \in SUBSET Detectable(raw_text) :
                LET result == RedactTranscript(raw_text, found)
                IN /\ redaction_result' = Some(result)
                   /\ audit_log' = AuditAppend(audit_log,
                                        [step |-> "redaction",
                                         entities_redacted |-> result.redaction_count,
                                         timestamp |-> Timestamp])
                   /\ transcript' = Some(CreateRedactedTranscript(transcript[1],
                                                                  result.redacted_text))
                   /\ port_calls' = Append(port_calls,
                                           PortCall("redact_transcript", raw_text, FALSE))
                   /\ pc' = "step3"
          \/ /\ Raise("redact_transcript", raw_text)
             /\ UNCHANGED <<redaction_result, audit_log, transcript>>
    /\ UNCHANGED <<redis, enable_redaction, t_in, insights, sentiments, processed,
                   redis_at_call, foreign_writes, cl, n_ops, last_op, srch, history>>

\* step 3, lines 87-92
Step3Extract ==
    /\ pc = "step3"
    /\ \/ \E llm \in LLMOutputs :
             /\ insights' = Some(Extract(transcript[1], llm))
             /\ audit_log' = AuditAppend(audit_log,
                                  [step |-> "extraction", model |-> ExtractorModel,
                                   timestamp |-> Timestamp])
             /\ port_calls' = Append(port_calls, PortCall("extract", transcript[1], FALSE))
             /\ pc' = "step4"
       \/ /\ Raise("extract", transcript[1])
          /\ UNCHANGED <<insights, audit_log>>
    /\ UNCHANGED <<redis, enable_redaction, t_in, transcript, redaction_result, sentiments,
                   processed, redis_at_call, foreign_writes, cl, n_ops, last_op,
                   srch, history>>

\* step 4, lines 95-100
Step4Sentiment ==
    /\ pc = "step4"
    /\ \/ /\ sentiments' = AnalyzeMeeting(transcript[1])
          /\ audit_log' = AuditAppend(audit_log,
                               [step |-> "sentiment",
                                speakers_analyzed |-> Len(AnalyzeMeeting(transcript[1])),
                                timestamp |-> Timestamp])
          /\ port_calls' = Append(port_calls,
                                  PortCall("analyze_meeting", transcript[1], FALSE))
          /\ pc' = "step5"
       \/ /\ Raise("analyze_meeting", transcript[1])
          /\ UNCHANGED <<sentiments, audit_log>>
    /\ UNCHANGED <<redis, enable_redaction, t_in, transcript, redaction_result, insights,
                   processed, redis_at_call, foreign_writes, cl, n_ops, last_op,
                   srch, history>>

\* step 5, lines 103-109
Step5Assemble ==
    /\ pc = "step5"
    /\ processed' = Some(ProcessedMeeting(transcript[1].meeting_id, t_in[1].tier,
                                          insights[1], sentiments, audit_log))
    /\ pc' = "step6"
    /\ UNCHANGED <<redis, enable_redaction, t_in, transcript, audit_log, redaction_result,
                   insights, sentiments, port_calls, redis_at_call, foreign_writes,
                   cl, n_ops, last_op, srch, history>>

\* step 6, line 113 up to vectorstore.py line 106: add_meeting builds the
\* payload and executes the record + index batch
Step6AddRecord ==
    /\ pc = "step6"
    /\ LET tier == t_in[1].tier
           arg == [store |-> tier, meeting_id |-> processed[1].meeting_id,
                   namespace |-> tier]
       IN \/ /\ redis' = AddRecordBatch(redis, tier, processed[1], Some(tier))
             /\ port_calls' = Append(port_calls, PortCall("add_meeting", arg, FALSE))
             /\ pc' = "step6_embed"
          \/ /\ Raise("add_meeting", arg)
             /\ UNCHANGED redis
    /\ UNCHANGED <<enable_redaction, t_in, transcript, audit_log, redaction_result,
                   insights, sentiments, processed, redis_at_call, foreign_writes,
                   cl, n_ops, last_op, srch, history>>

\* step 6, vectorstore.py lines 108-111 and pipeline.py lines 114-123: the
\* embedding is computed and written, then the call finishes
Step6Embed ==
    /\ pc = "step6_embed"
    /\ LET tier == t_in[1].tier
           vector_id == VectorId(tier, processed[1].meeting_id)
       IN \/ /\ redis' = AddEmbedding(redis, tier, processed[1])
             /\ processed' = Some([processed[1] EXCEPT !.vector_id = Some(vector_id)])
             /\ audit_log' = AuditAppend(audit_log,
                                  [step |-> "storage", vector_id |-> vector_id,
                                   namespace |-> tier, timestamp |-> Timestamp])
             /\ pc' = "returned"
             /\ UNCHANGED port_calls
          \/ /\ pc' = "raised"
             /\ port_calls' = [port_calls EXCEPT ![Len(port_calls)].raised = TRUE]
             /\ UNCHANGED <<redis, processed, audit_log>>
    /\ UNCHANGED <<enable_redaction, t_in, transcript, redaction_result, insights,
                   sentiments, redis_at_call, foreign_writes, cl, n_ops, last_op,
                   srch, history>>

\* the caller has the result (or the exception); the frame is gone
ProcessEnd ==
    /\ pc \in {"returned", "raised"}
    /\ pc' = "idle"
    /\ t_in' = None
    /\ transcript' = None
    /\ audit_log' = << >>
    /\ redaction_result' = None
    /\ insights' = None
    /\ sentiments' = << >>
    /\ processed' = None
    /\ port_calls' = << >>
    /\ redis_at_call' = [k \in Keys |-> None]
    /\ foreign_writes' = FALSE
    /\ UNCHANGED <<redis, enable_redaction, cl, n_ops, last_op, srch, history>>

Process ==
    \/ \E t \in Transcripts : ProcessStart(t)
    \/ Step2Skip
    \/ Step2Redact
    \/ Step3Extract
    \/ Step4Sentiment
    \/ Step5Assemble
    \/ Step6AddRecord
    \/ Step6Embed
    \/ ProcessEnd

-----------------------------------------------------------------------------
(* vectorstore.py: direct calls of the store's methods by other callers *)

Clients == {"c1", "c2"}

IdleClient == [pc |-> "idle", self_ns |-> ORDINARY, meeting |-> None]

\* the ProcessedMeeting records other callers add to the store of a tier
ClientMeetings(tier) ==
    { ProcessedMeeting(id, tier, Extract([title |-> "Sprint", date |-> Datetime("2025-02-18")], llm),
                       << >>, << >>) : id \in MeetingIds, llm \in LLMOutputs }

\* a write by another caller while a process() call is running
ForeignWrite == foreign_writes' = (foreign_writes \/ pc # "idle")

\* add_meeting up to the executed batch, lines 84-106
StoreAddRecord(c, self_ns, meeting, namespace) ==
    /\ cl[c].pc = "idle"
    /\ n_ops < MaxOps
    /\ n_ops' = n_ops + 1
    /\ redis' = AddRecordBatch(redis, self_ns, meeting, namespace)
    /\ cl' = [cl EXCEPT ![c] = [pc |-> "embed", self_ns |-> self_ns,
                                 meeting |-> Some(meeting)]]
    /\ ForeignWrite
    /\ UNCHANGED <<enable_redaction, pc, t_in, transcript, audit_log, redaction_result,
                   insights, sentiments, processed, port_calls, redis_at_call, last_op, srch, history>>

\* add_meeting, lines 108-111: the embedding is computed and written, or
\* the computation raises
StoreAddEmbed(c) ==
    /\ cl[c].pc = "embed"
    /\ \/ /\ redis' = AddEmbedding(redis, cl[c].self_ns, cl[c].meeting[1])
          /\ last_op' = [op |-> "add", ns |-> cl[c].self_ns,
                         id |-> cl[c].meeting[1].meeting_id, n |-> n_ops]
          /\ ForeignWrite
       \/ UNCHANGED <<redis, last_op, foreign_writes>>
    /\ cl' = [cl EXCEPT ![c] = IdleClient]
    /\ UNCHANGED <<enable_redaction, pc, t_in, transcript, audit_log, redaction_result,
                   insights, sentiments, processed, port_calls, redis_at_call, n_ops, srch, history>>

\* delete_meeting, lines 129-133
StoreDelete(self_ns, meeting_id) ==
    /\ n_ops < MaxOps
    /\ n_ops' = n_ops + 1
    /\ redis' = DeleteBatch(redis, self_ns, meeting_id)
    /\ last_op' = [op |-> "delete", ns |-> self_ns, id |-> meeting_id, n |-> n_ops + 1]
    /\ ForeignWrite
    /\ UNCHANGED <<enable_redaction, pc, t_in, transcript, audit_log, redaction_result,
                   insights, sentiments, processed, port_calls, redis_at_call, cl, srch, history>>

-----------------------------------------------------------------------------
(* pipeline.py: search_meetings, with vectorstore.py: search, step by step *)

Queries == {<<"q1">>, <<"q2">>}
Limits == {1, 5}

IdleSearch ==
    [pc |-> "idle", tier |-> None, self_ns |-> ORDINARY, ns |-> ORDINARY,
     query_embedding |-> <<0, 0>>, n_results |-> 0, pending |-> {}, mid |-> "",
     emb_raw |-> None, results |-> << >>, keys_read |-> {}, out |-> << >>]

\* an unscoped search that falls through to the sensitive store
SearchStore_Sensitive(tier) == IF tier # None THEN tier[1] ELSE SENSITIVE

\* the store search_meetings picks, lines 141-153
SearchStore(tier) == IF tier # None THEN tier[1] ELSE ORDINARY

\* lines 155-164: the trimmed result dicts
TrimResults(results) ==
    [k \in 1..Len(results) |->
        [meeting_id |-> results[k].meeting_id, score |-> results[k].score,
         title |-> results[k].metadata.title, tier |-> results[k].metadata.tier,
         content_preview |-> Prefix(results[k].content, PreviewLimit) \o <<"...">>]]

\* search_meetings calls search(); search reads the index set, lines 144-149
SearchBegin(query, tier, n_results) ==
    /\ srch.pc = "idle"
    /\ n_ops < MaxOps
    /\ n_ops' = n_ops + 1
    /\ LET self_ns == SearchStore(tier)
           ns == NsOrSelf(Some(SearchStore(tier)), self_ns)
           meeting_ids == SMEMBERS(redis, IndexKey(ns))
       IN srch' = [IdleSearch EXCEPT
                      !.pc = IF meeting_ids = {} THEN "done" ELSE "loop",
                      !.tier = tier, !.self_ns = self_ns, !.ns = ns,
                      !.query_embedding = IF meeting_ids = {} THEN <<0, 0>>
                                          ELSE GetEmbedding(query),
                      !.n_results = n_results, !.pending = meeting_ids,
                      !.keys_read = {IndexKey(ns)}]
    /\ UNCHANGED <<redis, enable_redaction, pipeVars, cl, last_op, history>>

\* line 153: the embedding of the next id is read
SearchReadEmb ==
    /\ srch.pc = "loop"
    /\ \E mid \in srch.pending :
          srch' = [srch EXCEPT !.pc = "read_data", !.mid = mid,
                               !.emb_raw = GET(redis, EmbKey(srch.ns, mid)),
                               !.keys_read = @ \cup {EmbKey(srch.ns, mid)}]
    /\ UNCHANGED <<redis, enable_redaction, pipeVars, cl, n_ops, last_op, history>>

\* lines 154-167: the record is read; the id is skipped unless both exist;
\* json.loads of a value that is not there raises
SearchReadData ==
    /\ srch.pc = "read_data"
    /\ LET data_raw == GET(redis, DataKey(srch.ns, srch.mid))
           skipped == Skips(srch.emb_raw, data_raw)
           raises == ~skipped /\ (srch.emb_raw = None \/ data_raw = None)
       IN srch' = [srch EXCEPT
                      !.pc = IF raises THEN "raised" ELSE "loop",
                      !.pending = @ \ {srch.mid}, !.mid = "",
                      !.emb_raw = None,
                      !.keys_read = @ \cup {DataKey(srch.ns, srch.mid)},
                      !.results = IF skipped \/ raises THEN @
                                  ELSE Append(@, SearchResult(srch.mid, srch.query_embedding,
                                                              srch.emb_raw[1], data_raw[1]))]
    /\ UNCHANGED <<redis, enable_redaction, pipeVars, cl, n_ops, last_op, history>>

\* lines 169-170 and pipeline.py lines 155-164
SearchFinish ==
    /\ srch.pc = "loop"
    /\ srch.pending = {}
    /\ srch' = [srch EXCEPT !.pc = "done",
                            !.out = TrimResults(Prefix(SortByScore(srch.results),
                                                       srch.n_results))]
    /\ UNCHANGED <<redis, enable_redaction, pipeVars, cl, n_ops, last_op, history>>

\* the caller has the result list or the exception; the frame is gone
SearchEnd ==
    /\ srch.pc \in {"done", "raised"}
    /\ srch' = IdleSearch
    /\ UNCHANGED <<redis, enable_redaction, pipeVars, cl, n_ops, last_op, history>>

SearchMeetings ==
    \/ \E q \in Queries, tier \in {None} \cup {Some(x) : x \in TierClassification},
          n \in Limits : SearchBegin(q, tier, n)
    \/ SearchReadEmb
    \/ SearchReadData
    \/ SearchFinish
    \/ SearchEnd

-----------------------------------------------------------------------------
(* vectorstore.py and api.py: one caller making its calls one after another *)

\* what the LLM answered for the meetings of the sequential caller
LLMWith(summary) == CHOOSE llm \in LLMOutputs : llm.summary = summary

\* title, summary and construction instant of the records the caller adds
Variants ==
    { [title |-> "Sprint", summary |-> "s1", at |-> 1],
      [title |-> "Sprint", summary |-> "s2", at |-> 2],
      [title |-> "Retro", summary |-> "s2", at |-> 1] }

\* a ProcessedMeeting constructed at instant v.at
SeqMeeting(id, tier, v) ==
    [ProcessedMeeting(id, tier,
                      Extract([title |-> v.title, date |-> Datetime("2025-02-18")],
                              LLMWith(v.summary)),
                      << >>, << >>)
        EXCEPT !.processed_at = Datetime(v.at)]

SeqMeetings(tier) == {SeqMeeting(id, tier, v) : id \in MeetingIds, v \in Variants}

SeqQueries == {<<"q1">>, <<"q2">>}
SeqLimits == {0, 1, 5}

\* one completed call: its arguments, what it returned, whether it raised,
\* the embeddings it computed and the keyspace it found
Call(op, ns, id, arg, ret, raised, embeds, before) ==
    [op |-> op, ns |-> ns, id |-> id, arg |-> arg, ret |-> ret, raised |-> raised,
     embeds |-> embeds, before |-> before]

\* the caller makes its next call
CanCall == n_ops < MaxOps

Completed(call) ==
    /\ n_ops' = n_ops + 1
    /\ history' = Append(history, call)
    /\ UNCHANGED <<enable_redaction, pipeVars, cl, last_op, srch>>

\* add_meeting, lines 84-111: it returns the vector id, or the embedding
\* computation raises after the record batch
SeqAdd(self_ns, meeting, namespace) ==
    /\ CanCall
    /\ \/ /\ redis' = AddEmbedding(AddRecordBatch(redis, self_ns, meeting, namespace),
                                    self_ns, meeting)
          /\ Completed(Call("add", self_ns, meeting.meeting_id, Some(meeting),
                            Some(VectorId(NsOrSelf(namespace, self_ns), meeting.meeting_id)),
                            FALSE, 1, redis))
       \/ /\ redis' = AddRecordBatch(redis, self_ns, meeting, namespace)
          /\ Completed(Call("add", self_ns, meeting.meeting_id, Some(meeting), None,
                            TRUE, 1, redis))

\* delete_meeting, lines 129-133
SeqDelete(self_ns, meeting_id) ==
    /\ CanCall
    /\ redis' = DeleteBatch(redis, self_ns, meeting_id)
    /\ Completed(Call("delete", self_ns, meeting_id, None, None, FALSE, 0, redis))

\* get_meeting, lines 114-117
SeqGet(self_ns, meeting_id) ==
    /\ CanCall
    /\ UNCHANGED redis
    /\ Completed(Call("get", self_ns, meeting_id, None,
                      GetMeeting(redis, self_ns, meeting_id), FALSE, 0, redis))

\* list_meetings, lines 120-126
SeqList(self_ns) ==
    /\ CanCall
    /\ UNCHANGED redis
    /\ Completed(Call("list", self_ns, "", None, ListMeetings(redis, self_ns),
                      FALSE, 0, redis))

\* the keys search(query, namespace) reads, lines 144-154: the index set of
\* `namespace or self.namespace`, then the embedding and the record of
\* every id in it
SearchKeysRead(r, self_ns, namespace) ==
    LET ns == NsOrSelf(namespace, self_ns)
    IN {IndexKey(ns)} \cup UNION {{EmbKey(ns, id), DataKey(ns, id)} :
                                    id \in SMEMBERS(r, IndexKey(ns))}

\* search(query, namespace, n_results), lines 144-170: it returns the result
\* list, or json.loads raises
SeqSearchIn(self_ns, query, n_results, namespace) ==
    /\ CanCall
    /\ UNCHANGED redis
    /\ \E order \in Orders(SMEMBERS(redis, IndexKey(NsOrSelf(namespace, self_ns)))) :
          LET arg == Some([query |-> query, n_results |-> n_results,
                           namespace |-> namespace])
          IN IF SearchRaises(redis, self_ns, namespace)
             THEN Completed(Call("search", self_ns, "", arg, << >>, TRUE,
                                 SearchEmbedCalls(redis, self_ns, namespace), redis))
             ELSE Completed(Call("search", self_ns, "", arg,
                                 Search(redis, self_ns, query, namespace, n_results, order),
                                 FALSE, SearchEmbedCalls(redis, self_ns, namespace), redis))

\* search(query, n_results) on the store's own namespace
SeqSearch(self_ns, query, n_results) == SeqSearchIn(self_ns, query, n_results, None)

\* api.py get_stats, lines 297-375: it returns the aggregate, or json.loads
\* raises
SeqStats ==
    /\ CanCall
    /\ UNCHANGED redis
    /\ \E o1 \in Orders(SMEMBERS(redis, IndexKey(ORDINARY))),
          o2 \in Orders(SMEMBERS(redis, IndexKey(SENSITIVE))) :
           IF StatsRaises(redis)
           THEN Completed(Call("stats", "", "", None, None, TRUE, 0, redis))
           ELSE Completed(Call("stats", "", "", None, Some(Stats(redis, o1, o2)), FALSE, 0,
                               redis))

\* another client of the Redis server sets a record or an embedding to a
\* value that is not JSON
ExternalSet(key) ==
    /\ CanCall
    /\ redis' = SET(redis, key, NotJson)
    /\ Completed(Call("set", "", "", Some(key), None, FALSE, 0, redis))

\* api.py deduplicate_meetings, lines 400-428
SeqDedup ==
    /\ CanCall
    /\ \E o1 \in Orders(SMEMBERS(redis, IndexKey(ORDINARY))),
          o2 \in Orders(SMEMBERS(redis, IndexKey(SENSITIVE))) :
           LET out == Deduplicate(redis, o1, o2)
           IN /\ redis' = out.redis
              /\ Completed(Call("dedup", "", "", None,
                                Some([kept |-> out.kept, removed |-> out.removed]),
                                FALSE, 0, redis))

-----------------------------------------------------------------------------
(* Specifications *)

EmptyRedis == [k \in Keys |-> None]

\* add_meeting run to completion on the store of the meeting's tier
AddMeeting(r, meeting) ==
    AddEmbedding(AddRecordBatch(r, meeting.tier, meeting, None), meeting.tier, meeting)

SeedMeeting(id, tier, summary) ==
    CHOOSE m \in ClientMeetings(tier) : m.meeting_id = id /\ m.insights.summary = summary

\* a keyspace left by earlier completed add_meeting calls: m1 in the
\* ordinary store, m1 and m2 in the sensitive store
SeededRedis ==
    AddMeeting(AddMeeting(AddMeeting(EmptyRedis, SeedMeeting("m1", ORDINARY, "s1")),
                          SeedMeeting("m1", SENSITIVE, "s2")),
               SeedMeeting("m2", SENSITIVE, "s1"))

InitWith(stores) ==
    /\ redis \in stores
    /\ enable_redaction \in BOOLEAN
    /\ pc = "idle"
    /\ t_in = None
    /\ transcript = None
    /\ audit_log = << >>
    /\ redaction_result = None
    /\ insights = None
    /\ sentiments = << >>
    /\ processed = None
    /\ port_calls = << >>
    /\ redis_at_call = EmptyRedis
    /\ foreign_writes = FALSE
    /\ cl = [c \in Clients |-> IdleClient]
    /\ n_ops = 0
    /\ last_op = [op |-> "none", ns |-> ORDINARY, id |-> "m1", n |-> 0]
    /\ srch = IdleSearch
    /\ history = << >>

Init == InitWith({EmptyRedis})

InitStore == InitWith({EmptyRedis, SeededRedis})

\* one pipeline instance serving process() calls while meetings are deleted
Next ==
    \/ Process
    \/ \E ns \in TierClassification, id \in MeetingIds : StoreDelete(ns, id)

Spec == Init /\ [][Next]_vars

\* the two stores under concurrent add_meeting, delete_meeting and
\* search_meetings calls
NextStore ==
    \/ \E c \in Clients, ns \in TierClassification :
          \E m \in ClientMeetings(ns), namespace \in {None, Some(ns)} :
             StoreAddRecord(c, ns, m, namespace)
    \/ \E c \in Clients : StoreAddEmbed(c)
    \/ \E ns \in TierClassification, id \in MeetingIds : StoreDelete(ns, id)
    \/ SearchMeetings

SpecStore == InitStore /\ [][NextStore]_vars

\* add_meeting calls of two callers on the two stores, interleaved at the
\* two writes of each call
NextAdds ==
    \/ \E c \in Clients, ns \in TierClassification :
          \E m \in ClientMeetings(ns), namespace \in {None, Some(ns)} :
             StoreAddRecord(c, ns, m, namespace)
    \/ \E c \in Clients : StoreAddEmbed(c)

SpecAdds == Init /\ [][NextAdds]_vars

\* api.py process_meeting, lines 133-142, after a successful call: the
\* meeting is stored and the raw transcript is set beside it
ApiStored(r, meeting, text) ==
    SET(AddMeeting(r, meeting), TranscriptKey(meeting.tier, meeting.meeting_id), text)

SeqSeed(id, tier, title, summary, at) ==
    SeqMeeting(id, tier, [title |-> title, summary |-> summary, at |-> at])

\* a keyspace left by earlier completed calls: three meetings of one title
\* in the ordinary store, two meetings of different titles in the sensitive
\* store, each with its raw transcript
SeqSeededRedis ==
    ApiStored(ApiStored(ApiStored(ApiStored(ApiStored(EmptyRedis,
        SeqSeed("m1", ORDINARY, "Sprint", "s1", 2), <<"raw", "m1">>),
        SeqSeed("m2", ORDINARY, "Sprint", "s2", 3), <<"raw", "m2">>),
        SeqSeed("m3", ORDINARY, "Sprint", "s1", 1), <<"raw", "m3">>),
        SeqSeed("m1", SENSITIVE, "Sprint", "s2", 1), <<"raw", "m1">>),
        SeqSeed("m2", SENSITIVE, "Retro", "s1", 2), <<"raw", "m2">>)

InitSeq == InitWith({EmptyRedis, SeqSeededRedis}) /\ enable_redaction

\* one caller making add_meeting, delete_meeting, get_meeting, list_meetings,
\* search and deduplicate calls, each completed before the next starts
NextSeq ==
    \/ \E ns \in TierClassification : \E m \in SeqMeetings(ns) : SeqAdd(ns, m, None)
    \/ \E ns \in TierClassification, id \in AllIds : SeqDelete(ns, id)
    \/ \E ns \in TierClassification, id \in AllIds : SeqGet(ns, id)
    \/ \E ns \in TierClassification : SeqList(ns)
    \/ \E ns \in TierClassification, q \in SeqQueries, n \in SeqLimits : SeqSearch(ns, q, n)
    \/ SeqDedup
    \/ SeqStats

SpecSeq == InitSeq /\ [][NextSeq]_vars

\* the caller's add_meeting, delete_meeting, search and get_stats calls on a
\* Redis server that another client writes too
NextScan ==
    \/ \E ns \in TierClassification : \E m \in SeqMeetings(ns) : SeqAdd(ns, m, None)
    \/ \E ns \in TierClassification, id \in AllIds : SeqDelete(ns, id)
    \/ \E ns \in TierClassification, q \in SeqQueries, n \in SeqLimits : SeqSearch(ns, q, n)
    \/ SeqStats
    \/ \E ns \in TierClassification, id \in MeetingIds :
          \E key \in {DataKey(ns, id), EmbKey(ns, id)} : ExternalSet(key)

SpecScan == InitSeq /\ [][NextScan]_vars

\* the namespace arguments a caller of a store may pass
Namespaces == {None} \cup {Some(ns) : ns \in TierClassification}

\* one caller making add_meeting, delete_meeting and search calls with a
\* namespace argument of its choice
NextNs ==
    \/ \E ns \in TierClassification, namespace \in Namespaces :
          \E m \in {SeqSeed(id, ns, "Sprint", "s1", 1) : id \in MeetingIds} :
             SeqAdd(ns, m, namespace)
    \/ \E ns \in TierClassification, id \in AllIds : SeqDelete(ns, id)
    \/ \E ns \in TierClassification, q \in SeqQueries, namespace \in Namespaces :
          SeqSearchIn(ns, q, 5, namespace)

SpecNs == InitSeq /\ [][NextNs]_vars

-----------------------------------------------------------------------------
(* redaction.py and vectorstore.py: calls of the pure functions *)

PureTexts == {<<"hi", "team">>, <<"mail", "a@x.com">>, <<"Alice", "mail", "a@x.com">>}

IsRedactCall(c) == c.op \in {"redact", "redact_transcript"}

\* the texts a caller redacts: a text of its own, or the redacted text an
\* earlier call returned
PureInputs ==
    PureTexts \cup {history[k].ret.result.redacted_text :
                      k \in {j \in 1..Len(history) : IsRedactCall(history[j])}}

\* the analyzer is a function of the text: what it may answer for a text,
\* given what it answered before
AnalyzerAnswers(text) ==
    {found \in SUBSET Detectable(text) :
        \A k \in 1..Len(history) :
           (IsRedactCall(history[k]) /\ history[k].arg[1].text = text)
              => history[k].arg[1].found = found}

\* the floats of an embedding list: small integer vectors scaled by 2^e
PureVectors ==
    {VectorOf(m, e) : m \in {<<0, 0>>, <<3, 4>>, <<4, 3>>, <<0 - 3, 0 - 4>>},
                      e \in {0 - 80, 0, 70}}

\* a call returned; the caller keeps it, and before it the previous call
\* when it redacts what that call may have returned
PureDone(call) ==
    /\ history' = (IF history # << >> /\ IsRedactCall(call)
                      /\ IsRedactCall(history[Len(history)])
                   THEN <<history[Len(history)]>> ELSE << >>) \o <<call>>
    /\ UNCHANGED <<redis, enable_redaction, pipeVars, cl, n_ops, last_op, srch>>

\* PIIRedactor.redact(text), the analyzer answering found
PureRedact(text, found) ==
    PureDone(Call("redact", "", "", Some([text |-> text, found |-> found]),
                  [result |-> Redact(text, found),
                   anonymizer_calls |-> AnonymizerCalls(found)], FALSE, 0, redis))

\* PIIRedactor.redact_transcript(text), the analyzer answering found
PureRedactTranscript(text, found) ==
    PureDone(Call("redact_transcript", "", "", Some([text |-> text, found |-> found]),
                  [result |-> RedactTranscript(text, found),
                   anonymizer_calls |-> AnonymizerCalls(found)], FALSE, 0, redis))

\* MeetingVectorStore._cosine_similarity(a, b)
PureCosine(a, b) ==
    PureDone(Call("cosine", "", "", Some([a |-> a, b |-> b]),
                  CosineSimilarityFloat32(a, b), FALSE, 0, redis))

\* the texts of one speaker
SpeakerTexts ==
    {<< >>, << <<"bad">> >>, << <<"poor", "work">> >>, << <<"ok">> >>, << <<"nice">> >>,
     << <<"good">>, <<"job">> >>}

\* SentimentAnalyzer._analyze_speaker(speaker, texts); stars is the rating
\* the classifier gave, 0 when it was not asked
PureAnalyzeSpeaker(speaker, texts) ==
    PureDone(Call("analyze_speaker", "", "", Some([speaker |-> speaker, texts |-> texts]),
                  [result |-> AnalyzeSpeaker(speaker, texts),
                   classifier_calls |-> ClassifierCalls(texts),
                   stars |-> IF texts = << >> THEN 0
                             ELSE ClassifierStars(Prefix(Join(" ", Prefix(texts, TextsLimit)),
                                                         ClassifierLimit))],
                  FALSE, 0, redis))

InitPure == InitWith({EmptyRedis}) /\ enable_redaction

NextPure ==
    \/ \E text \in PureInputs : \E found \in AnalyzerAnswers(text) : PureRedact(text, found)
    \/ \E text \in PureInputs : \E found \in AnalyzerAnswers(text) :
          PureRedactTranscript(text, found)
    \/ \E a \in PureVectors, b \in PureVectors : PureCosine(a, b)
    \/ \E speaker \in {<<"Alice">>, <<"Bob">>}, texts \in SpeakerTexts :
          PureAnalyzeSpeaker(speaker, texts)

SpecPure == InitPure /\ [][NextPure]_vars

-----------------------------------------------------------------------------

(* api.py: POST /api/v1/meetings/process *)

\* ProcessRequest, lines 32 and 35: Field(min_length=1, max_length=500) and
\* Field(min_length=10), lengths counted in the units of the model's texts
TitleMinLength == 1
TitleMaxLength == 500
TranscriptMinLength == 10

LongTitle == [k \in 1..(TitleMaxLength + 1) |-> "x"]

ShortText == <<"[", "00:02", "]", "Bob", ":", "mail", "a@x.com", "\n", "ok">>

\* a body that passes validation
ApiRequest(id, tier) ==
    [meeting_id |-> id, title |-> <<"Sprint">>, date |-> None, tier |-> tier,
     transcript |-> ShortText \o <<"ok">>]

\* the request bodies clients post: valid ones, and bodies with a bad tier,
\* an empty or too long title, a too short transcript
ApiRequests ==
    {ApiRequest(id, tier) : id \in {None, Some("m1")}, tier \in TierClassification}
       \cup { [ApiRequest(Some("m1"), SENSITIVE) EXCEPT !.tier = "secret"],
              [ApiRequest(Some("m1"), SENSITIVE) EXCEPT !.title = << >>],
              [ApiRequest(Some("m1"), SENSITIVE) EXCEPT !.title = LongTitle],
              [ApiRequest(Some("m1"), SENSITIVE) EXCEPT !.transcript = ShortText],
              [ApiRequest(None, ORDINARY) EXCEPT !.transcript = << >>, !.tier = ""] }

\* a request validated without the length constraints
ValidRequest_NoLengthCheck(req) == req.tier \in {"ordinary", "sensitive"}

\* pydantic validation of the body against ProcessRequest, lines 30-35
ValidRequest(req) ==
    /\ Len(req.title) >= TitleMinLength
    /\ Len(req.title) <= TitleMaxLength
    /\ req.tier \in {"ordinary", "sensitive"}
    /\ Len(req.transcript) >= TranscriptMinLength

\* lines 121-130: the transcript process_meeting builds; generated is the id
\* uuid4 gives when the request has none
ApiTranscript(req, generated) ==
    MeetingTranscript(IF req.meeting_id # None THEN req.meeting_id[1] ELSE generated,
                      req.title,
                      IF req.date # None THEN req.date[1] ELSE Datetime("utcnow"),
                      req.tier, << >>, << >>, Some(req.transcript))

\* the body fails validation: FastAPI answers 422 and process_meeting is not
\* called
ApiReject(req) ==
    /\ CanCall
    /\ pc = "idle"
    /\ ~ValidRequest(req)
    /\ UNCHANGED redis
    /\ Completed(Call("process", "", "", Some(req), Some(422), TRUE, 0, redis))

\* lines 118-133: the body is valid and pipeline.process is entered
ApiAccept(req) ==
    /\ ValidRequest(req)
    /\ \E generated \in MeetingIds : ProcessStart(ApiTranscript(req, generated))

\* lines 138-142: process() returned and the raw transcript is set beside
\* the record
ApiReturn ==
    /\ pc = "returned"
    /\ redis' = SET(redis, TranscriptKey(t_in[1].tier, processed[1].meeting_id),
                    t_in[1].raw_text[1])
    /\ pc' = "idle"
    /\ t_in' = None
    /\ transcript' = None
    /\ audit_log' = << >>
    /\ redaction_result' = None
    /\ insights' = None
    /\ sentiments' = << >>
    /\ processed' = None
    /\ port_calls' = << >>
    /\ redis_at_call' = [k \in Keys |-> None]
    /\ foreign_writes' = FALSE
    /\ UNCHANGED <<enable_redaction, cl, n_ops, last_op, srch, history>>

\* lines 132-136: process() raised and the endpoint answers 500
ApiFail ==
    /\ pc = "raised"
    /\ ProcessEnd

\* one API server handling process requests one at a time
NextApi ==
    \/ \E req \in ApiRequests : ApiReject(req)
    \/ \E req \in ApiRequests : ApiAccept(req)
    \/ Step2Skip
    \/ Step2Redact
    \/ Step3Extract
    \/ Step4Sentiment
    \/ Step5Assemble
    \/ Step6AddRecord
    \/ Step6Embed
    \/ ApiReturn
    \/ ApiFail

SpecApi == Init /\ [][NextApi]_vars

-----------------------------------------------------------------------------

(* api.py: the process, transcript, delete and dedup endpoints *)

\* the records the process endpoint stores and the raw text of each request
EndpointMeetings ==
    {SeqSeed(id, ns, "Sprint", "s1", 1) : id \in MeetingIds, ns \in TierClassification}

\* POST /api/v1/meetings/process, lines 132-142: process() returned and the
\* raw transcript is set beside the record; or process() raised in the
\* storage step after the record batch; or it raised before storing
EndpointProcess(meeting) ==
    /\ CanCall
    /\ \/ /\ redis' = ApiStored(redis, meeting, <<"raw", meeting.meeting_id>>)
          /\ Completed(Call("process", meeting.tier, meeting.meeting_id, Some(meeting),
                            Some(meeting.meeting_id), FALSE, 1, redis))
       \/ /\ redis' = AddRecordBatch(redis, meeting.tier, meeting, Some(meeting.tier))
          /\ Completed(Call("process", meeting.tier, meeting.meeting_id, Some(meeting),
                            None, TRUE, 1, redis))
       \/ /\ UNCHANGED redis
          /\ Completed(Call("process", meeting.tier, meeting.meeting_id, Some(meeting),
                            None, TRUE, 0, redis))

\* GET /api/v1/meetings/{meeting_id}/transcript, lines 277-294: the raw
\* transcript, or 404 when the key holds nothing
EndpointGetTranscript(tier, meeting_id) ==
    /\ CanCall
    /\ UNCHANGED redis
    /\ LET raw == GET(redis, TranscriptKey(tier, meeting_id))
       IN Completed(Call("get_transcript", tier, meeting_id, None, raw,
                         raw = None, 0, redis))

\* DELETE /api/v1/meetings/{meeting_id}, lines 378-391: the store's
\* delete_meeting and nothing else
EndpointDelete(tier, meeting_id) ==
    /\ CanCall
    /\ redis' = DeleteBatch(redis, tier, meeting_id)
    /\ Completed(Call("delete_endpoint", tier, meeting_id, None, None, FALSE, 0, redis))

\* one API server handling process, transcript, delete and dedup requests
\* one at a time
NextEndpoints ==
    \/ \E m \in EndpointMeetings : EndpointProcess(m)
    \/ \E ns \in TierClassification, id \in MeetingIds : EndpointGetTranscript(ns, id)
    \/ \E ns \in TierClassification, id \in MeetingIds : EndpointDelete(ns, id)
    \/ SeqDedup

SpecEndpoints == InitSeq /\ [][NextEndpoints]_vars

-----------------------------------------------------------------------------

(* Properties *)

Active == pc # "idle"

\* the number of calls of a port made by the running process() call
RECURSIVE CountCalls(_, _)
CountCalls(calls, port) ==
    IF calls = << >> THEN 0
    ELSE (IF Head(calls).port = port THEN 1 ELSE 0) + CountCalls(Tail(calls), port)

Steps(log) == [k \in 1..Len(log) |-> log[k].step]

\* C1: a process() call on a transcript of tier ordinary never invokes
\* redact_transcript and never has a 'redaction' audit entry, whether or not
\* redaction is enabled on the pipeline
C1_OrdinaryNeverRedacted ==
    (Active /\ t_in[1].tier = ORDINARY) =>
        /\ CountCalls(port_calls, "redact_transcript") = 0
        /\ ~Contains(Steps(audit_log), "redaction")
        /\ processed # None => ~Contains(Steps(processed[1].audit_log), "redaction")

C1_Witness ==
    /\ pc = "returned"
    /\ t_in[1].tier = ORDINARY
    /\ enable_redaction
    /\ CountCalls(port_calls, "extract") = 1

\* C2: a process() call on a sensitive transcript with redaction enabled
\* invokes redact_transcript exactly once, before the extraction port, and
\* the text given to extraction differs from the original raw text whenever
\* redaction_count > 0
C2_SensitiveRedactedOnce ==
    (Active /\ t_in[1].tier = SENSITIVE /\ enable_redaction) =>
        /\ CountCalls(port_calls, "redact_transcript") = (IF pc = "step2" THEN 0 ELSE 1)
        /\ \A i \in 1..Len(port_calls) :
              port_calls[i].port = "extract" =>
                 /\ \E j \in 1..(i - 1) : port_calls[j].port = "redact_transcript"
                 /\ redaction_result[1].redaction_count > 0 =>
                       ContextBody(port_calls[i].arg) # RawTextOf(t_in[1])
                 /\ ContextBody(port_calls[i].arg) = redaction_result[1].redacted_text

C2_Witness ==
    /\ pc = "returned"
    /\ t_in[1].tier = SENSITIVE
    /\ enable_redaction
    /\ redaction_result[1].redaction_count > 0
    /\ CountCalls(port_calls, "extract") = 1

KeyNamespace(k) == k[2]

\* C4: search_meetings with a tier reads only that tier's keys; without a
\* tier it reads only keys of the ordinary namespace, and no meeting of the
\* sensitive namespace is in its result
C4_SearchScoped ==
    srch.pc # "idle" =>
        /\ \A k \in srch.keys_read : KeyNamespace(k) = SearchStore(srch.tier)
        /\ srch.tier # None => srch.self_ns = srch.tier[1]
        /\ srch.tier = None =>
              /\ srch.self_ns = ORDINARY
              /\ \A k \in srch.keys_read : KeyNamespace(k) # SENSITIVE
              /\ \A i \in 1..Len(srch.results) :
                    srch.results[i].metadata.namespace = ORDINARY
              /\ \A i \in 1..Len(srch.out) : srch.out[i].tier = ORDINARY

C4_Witness ==
    /\ srch.pc = "done"
    /\ srch.tier = None
    /\ Len(srch.out) = 1
    /\ srch.out[1].meeting_id = "m1"
    /\ GetMeeting(redis, SENSITIVE, "m2") # None
    /\ SMEMBERS(redis, IndexKey(SENSITIVE)) = {"m1", "m2"}

Last(seq) == seq[Len(seq)]

PortsOfProcess == {"redact_transcript", "extract", "analyze_meeting"}

\* C5: when the redaction, extraction or sentiment port raises, the call
\* ends with that failure, the port was invoked once, nothing was invoked
\* after it, and the call left the keyspace of both namespaces as it found it
C5_PortFailureAborts ==
    /\ \A i \in 1..Len(port_calls) :
          port_calls[i].raised => (pc = "raised" /\ i = Len(port_calls))
    /\ (pc = "raised" /\ Last(port_calls).port \in PortsOfProcess) =>
          /\ Last(port_calls).raised
          /\ CountCalls(port_calls, Last(port_calls).port) = 1
          /\ CountCalls(port_calls, "add_meeting") = 0
          /\ processed = None
          /\ ~foreign_writes => redis = redis_at_call

C5_Witness ==
    /\ pc = "raised"
    /\ Last(port_calls).port = "analyze_meeting"
    /\ CountCalls(port_calls, "extract") = 1
    /\ ~foreign_writes
    /\ redis # EmptyRedis

\* C6: a process() call that fails, in whatever step, has persisted
\* nothing: the keyspace is what it was when the call started
C6_FailedCallPersistsNothing ==
    (pc = "raised" /\ ~foreign_writes) => redis = redis_at_call

Present(r, k) == GET(r, k) # None

\* C7: in every state every record has its index membership and every
\* embedding has its record
C7_NoOrphans ==
    \A ns \in TierClassification, id \in MeetingIds :
        /\ Present(redis, DataKey(ns, id)) => id \in SMEMBERS(redis, IndexKey(ns))
        /\ Present(redis, EmbKey(ns, id)) => Present(redis, DataKey(ns, id))

NoneOfThree(r, ns, id) ==
    /\ ~Present(r, DataKey(ns, id))
    /\ ~Present(r, EmbKey(ns, id))
    /\ id \notin SMEMBERS(r, IndexKey(ns))

\* a step that removes the record, the embedding or the index membership
RemovesSome(ns, id) ==
    \/ Present(redis, DataKey(ns, id)) /\ ~Present(redis', DataKey(ns, id))
    \/ Present(redis, EmbKey(ns, id)) /\ ~Present(redis', EmbKey(ns, id))
    \/ id \in SMEMBERS(redis, IndexKey(ns)) /\ id \notin SMEMBERS(redis', IndexKey(ns))

\* C8: delete_meeting removes record, embedding and index membership in one
\* step: a step that removes any of the three leaves none of them, and after
\* a delete_meeting none of the three exists
C8_DeleteAtomic ==
    [][ /\ \A ns \in TierClassification, id \in MeetingIds :
              RemovesSome(ns, id) => NoneOfThree(redis', ns, id)
        /\ (last_op' # last_op /\ last_op'.op = "delete") =>
              NoneOfThree(redis', last_op'.ns, last_op'.id) ]_vars

C8_Witness ==
    /\ last_op.op = "delete"
    /\ last_op.ns = SENSITIVE
    /\ last_op.id = "m1"
    /\ NoneOfThree(redis, SENSITIVE, "m1")
    /\ ~NoneOfThree(redis, SENSITIVE, "m2")
    /\ ~NoneOfThree(redis, ORDINARY, "m1")

IsPrefix(s, t) == Len(s) <= Len(t) /\ SubSeq(t, 1, Len(s)) = s

\* the audit steps of a successful call, in pipeline execution order
ExpectedSteps(tier, enabled) ==
    <<"classification">>
    \o (IF tier = SENSITIVE /\ enabled THEN <<"redaction">> ELSE << >>)
    \o <<"extraction", "sentiment", "storage">>

\* C9: the audit entries of a call are appended in pipeline execution order,
\* classification, redaction (if and only if sensitive with redaction
\* enabled), extraction, sentiment, storage, each at most once and each with
\* a step and a timestamp
C9_AuditOrder ==
    Active =>
        /\ IsPrefix(Steps(audit_log), ExpectedSteps(t_in[1].tier, enable_redaction))
        /\ pc = "returned" =>
              Steps(audit_log) = ExpectedSteps(t_in[1].tier, enable_redaction)
        /\ \A i \in 1..Len(audit_log) :
              {"step", "timestamp"} \subseteq DOMAIN audit_log[i]
        /\ processed # None =>
              IsPrefix(Steps(processed[1].audit_log),
                       ExpectedSteps(t_in[1].tier, enable_redaction))

C9_Witness ==
    /\ pc = "returned"
    /\ t_in[1].tier = SENSITIVE
    /\ enable_redaction
    /\ Len(audit_log) = 5

\* C10: the audit log of the record process() returns ends with the
\* 'storage' entry
C10_ReturnedLogHasStorage ==
    pc = "returned" =>
        /\ processed[1].audit_log # << >>
        /\ Last(processed[1].audit_log).step = "storage"

\* C11: the sentiment port is invoked on the transcript the caller passed in
\* (with its turns), also when the tier is sensitive and step 2 produced a
\* redacted transcript
C11_SentimentOnOriginal ==
    \A i \in 1..Len(port_calls) :
        port_calls[i].port = "analyze_meeting" => port_calls[i].arg = t_in[1]

ChangedKeys(before, after) == {k \in Keys : before[k] # after[k]}

\* C13: a successful process(t) persists exactly one record, under the
\* namespace t.tier, returns a record with t's meeting_id and tier and the
\* vector id "{tier}_{meeting_id}", and writes no key of the other tier
C13_OneRecordUnderTier ==
    (pc = "returned" /\ ~foreign_writes) =>
        LET t == t_in[1]
            changed == ChangedKeys(redis_at_call, redis)
        IN /\ processed[1].meeting_id = t.meeting_id
           /\ processed[1].tier = t.tier
           /\ processed[1].vector_id = Some(<<t.tier, "_", t.meeting_id>>)
           /\ changed \subseteq {DataKey(t.tier, t.meeting_id), EmbKey(t.tier, t.meeting_id),
                                  IndexKey(t.tier)}
           /\ \A k \in changed : KeyNamespace(k) = t.tier
           /\ GetMeeting(redis, t.tier, t.meeting_id) # None
           /\ GetMeeting(redis, t.tier, t.meeting_id)[1].metadata.namespace = t.tier
           /\ GetMeeting(redis, t.tier, t.meeting_id)[1].vector_id
                 = <<t.tier, "_", t.meeting_id>>
           /\ t.meeting_id \in SMEMBERS(redis, IndexKey(t.tier))

C13_Witness ==
    /\ pc = "returned"
    /\ ~foreign_writes
    /\ t_in[1].tier = SENSITIVE
    /\ t_in[1].meeting_id = "m2"
    /\ GetMeeting(redis, SENSITIVE, "m2") # None
    /\ GetMeeting(redis, ORDINARY, "m2") = None
    /\ n_ops = 2

-----------------------------------------------------------------------------
(* Properties of sequential calls *)

\* the keyspace the i-th call of the history left
After(i) == IF i = Len(history) THEN redis ELSE history[i + 1].before

\* the i-th and the next call are op1 and op2 on the same store and id
Followed(i, op1, op2) ==
    /\ i + 1 <= Len(history)
    /\ history[i].op = op1
    /\ history[i + 1].op = op2
    /\ history[i + 1].ns = history[i].ns
    /\ history[i + 1].id = history[i].id

\* C14: add_meeting(m) followed by get_meeting(m.meeting_id) on the same
\* store returns a record whose metadata.meeting_id is m.meeting_id and whose
\* metadata.title is m.insights.meeting_title
C14_AddGetRoundTrip ==
    \A i \in 1..Len(history) :
        Followed(i, "add", "get") =>
            LET m == history[i].arg[1]
                got == history[i + 1].ret
            IN /\ got # None
               /\ got[1].metadata.meeting_id = m.meeting_id
               /\ got[1].metadata.title = m.insights.meeting_title

C14_Witness ==
    /\ Len(history) = 2
    /\ Followed(1, "add", "get")
    /\ ~history[1].raised
    /\ history[1].ns = SENSITIVE
    /\ history[1].id = "m1"
    /\ GetMeeting(history[1].before, SENSITIVE, "m1") # None
    /\ GetMeeting(history[1].before, SENSITIVE, "m1")[1].metadata.title = "Sprint"
    /\ history[2].ret[1].metadata.title = "Retro"

\* C15: for every id, stored or not, delete_meeting(id) followed by
\* get_meeting(id) returns null, and a second delete_meeting(id) does not
\* raise and leaves the keyspace unchanged
C15_DeleteIdempotent ==
    \A i \in 1..Len(history) :
        /\ history[i].op = "delete" =>
              /\ ~history[i].raised
              /\ GetMeeting(After(i), history[i].ns, history[i].id) = None
        /\ Followed(i, "delete", "get") => history[i + 1].ret = None
        /\ Followed(i, "delete", "delete") =>
              /\ ~history[i + 1].raised
              /\ After(i + 1) = history[i + 1].before

C15_Witness ==
    /\ Len(history) = 2
    /\ Followed(1, "delete", "delete")
    /\ history[1].ns = ORDINARY
    /\ history[1].id = "m2"
    /\ GetMeeting(history[1].before, ORDINARY, "m2") # None
    /\ GetMeeting(redis, ORDINARY, "m2") = None
    /\ GetMeeting(redis, ORDINARY, "m1") # None

\* the number of entries of a list of metadata that have the id
CountId(metas, id) == Cardinality({k \in 1..Len(metas) : metas[k].meeting_id = id})

\* C16: when the same meeting_id is added twice in a row to the same store
\* with different payloads, the record is the second payload's (document,
\* metadata, processed_meeting), the embedding is the one of the second
\* document, and the index set and list_meetings hold the id exactly once
C16_LastWriteWins ==
    \A i \in 1..Len(history) :
        (/\ Followed(i, "add", "add")
         /\ ~history[i].raised /\ ~history[i + 1].raised
         /\ history[i].arg # history[i + 1].arg) =>
            LET ns == history[i].ns
                id == history[i].id
                m2 == history[i + 1].arg[1]
                r == After(i + 1)
                got == GetMeeting(r, ns, id)
            IN /\ got # None
               /\ got[1].document = MeetingToDocument(m2)
               /\ got[1].metadata.title = m2.insights.meeting_title
               /\ got[1].metadata.processed_at = Isoformat(m2.processed_at)
               /\ got[1].processed_meeting.insights = m2.insights
               /\ GET(r, EmbKey(ns, id)) = Some(JsonDumps(GetEmbedding(MeetingToDocument(m2))))
               /\ id \in SMEMBERS(r, IndexKey(ns))
               /\ CountId(ListMeetings(r, ns), id) = 1

C16_Witness ==
    /\ Len(history) = 2
    /\ Followed(1, "add", "add")
    /\ ~history[1].raised /\ ~history[2].raised
    /\ history[1].arg[1].insights.summary = "s1"
    /\ history[2].arg[1].insights.summary = "s2"
    /\ history[1].before = EmptyRedis
    /\ GET(redis, EmbKey(history[1].ns, history[1].id)) = Some(JsonDumps(<<3, 4>>))

\* the position of an id in the ascending order of ids
IdRank(id) == CHOOSE k \in 1..Len(IdOrder) : IdOrder[k] = id

\* the ids of a namespace's index set whose record exists
Listed(r, ns) == {id \in SMEMBERS(r, IndexKey(ns)) : Present(r, DataKey(ns, id))}

\* metas is the metadata of exactly the listed ids of ns in r, ascending
IsListing(metas, r, ns) ==
    /\ {metas[k].meeting_id : k \in 1..Len(metas)} = Listed(r, ns)
    /\ Len(metas) = Cardinality(Listed(r, ns))
    /\ \A k \in 1..Len(metas) :
          metas[k] = JsonLoads(GET(r, DataKey(ns, metas[k].meeting_id))[1]).metadata
    /\ \A j, k \in 1..Len(metas) :
          j < k => IdRank(metas[j].meeting_id) < IdRank(metas[k].meeting_id)
    /\ SMEMBERS(r, IndexKey(ns)) = {} => metas = << >>

\* C17: list_meetings returns the metadata of exactly the ids that are in
\* the index set and whose record exists, each once, by meeting_id ascending,
\* and the empty list on an empty namespace
C17_ListSorted ==
    /\ \A ns \in TierClassification : IsListing(ListMeetings(redis, ns), redis, ns)
    /\ \A i \in 1..Len(history) :
          history[i].op = "list" =>
             IsListing(history[i].ret, history[i].before, history[i].ns)

C17_Witness ==
    /\ Len(history) = 2
    /\ history[1].op = "delete"
    /\ history[2].op = "list"
    /\ Len(history[2].ret) = 2
    /\ history[2].ret[1].meeting_id = "m1"
    /\ history[2].ret[2].meeting_id = "m3"

\* the ids of a namespace that have both a record and an embedding
Searchable(r, ns) ==
    {id \in SMEMBERS(r, IndexKey(ns)) :
        Present(r, DataKey(ns, id)) /\ Present(r, EmbKey(ns, id))}

\* the similarity of a stored meeting to a query
ScoreOf(r, ns, id, query) ==
    CosineSimilarity(GetEmbedding(query), JsonLoads(GET(r, EmbKey(ns, id))[1]))

\* C18: search returns its results in non-increasing order of score, at most
\* limit of them for every limit >= 0, and they are the highest-scoring of
\* the meetings that have both a record and an embedding in the namespace
C18_SearchRanked ==
    \A i \in 1..Len(history) :
        history[i].op = "search" =>
            LET res == history[i].ret
                r == history[i].before
                ns == history[i].ns
                query == history[i].arg[1].query
                limit == history[i].arg[1].n_results
                found == {res[k].meeting_id : k \in 1..Len(res)}
            IN /\ \A j, k \in 1..Len(res) : j < k => res[j].score >= res[k].score
               /\ Len(res) <= limit
               /\ Len(res) = Min(limit, Cardinality(Searchable(r, ns)))
               /\ Cardinality(found) = Len(res)
               /\ found \subseteq Searchable(r, ns)
               /\ \A k \in 1..Len(res) :
                     res[k].score = ScoreOf(r, ns, res[k].meeting_id, query)
               /\ \A id \in Searchable(r, ns) \ found :
                     \A k \in 1..Len(res) : ScoreOf(r, ns, id, query) <= res[k].score

C18_Witness ==
    /\ Len(history) = 1
    /\ history[1].op = "search"
    /\ history[1].ns = ORDINARY
    /\ history[1].arg[1].n_results = 1
    /\ Len(history[1].ret) = 1
    /\ Cardinality(Searchable(redis, ORDINARY)) = 3
    /\ \E id \in Searchable(redis, ORDINARY) :
          ScoreOf(redis, ORDINARY, id, history[1].arg[1].query) < history[1].ret[1].score

\* C19: get_meeting on an id with no record returns null, and search on a
\* namespace whose index set is empty returns the empty list; neither
\* raises, and the search computes no query embedding
C19_AbsentIsNormal ==
    \A i \in 1..Len(history) :
        /\ (history[i].op = "get"
             /\ ~Present(history[i].before, DataKey(history[i].ns, history[i].id))) =>
                /\ history[i].ret = None
                /\ ~history[i].raised
        /\ (history[i].op = "search"
             /\ SMEMBERS(history[i].before, IndexKey(history[i].ns)) = {}) =>
                /\ history[i].ret = << >>
                /\ ~history[i].raised
                /\ history[i].embeds = 0

C19_Witness ==
    /\ Len(history) = 2
    /\ history[1].op = "get"
    /\ history[1].ret = None
    /\ history[2].op = "search"
    /\ history[2].ret = << >>
    /\ redis = EmptyRedis

\* the title and processed_at of the record of id in namespace ns
TitleOf(r, ns, id) == JsonLoads(GET(r, DataKey(ns, id))[1]).metadata.title
ProcessedAtOf(r, ns, id) == JsonLoads(GET(r, DataKey(ns, id))[1]).metadata.processed_at

\* the listed ids of ns whose record has the title
Group(r, ns, title) == {id \in Listed(r, ns) : TitleOf(r, ns, id) = title}

Titles(r, ns) == {TitleOf(r, ns, id) : id \in Listed(r, ns)}

RECURSIVE Sum(_, _)
Sum(f, S) == IF S = {} THEN 0 ELSE LET x == CHOOSE x \in S : TRUE IN f[x] + Sum(f, S \ {x})

NoneOfFour(r, ns, id) == NoneOfThree(r, ns, id) /\ ~Present(r, TranscriptKey(ns, id))

\* C20: after deduplicate(), in each namespace and for each title exactly
\* one record remains, one with the greatest processed_at of that title;
\* every other record of the title is gone with its embedding, index
\* membership and raw transcript; 'removed' is the number of records deleted
\* and 'kept' the number of (namespace, title) groups
C20_DedupKeepsLatest ==
    \A i \in 1..Len(history) :
        history[i].op = "dedup" =>
            LET b == history[i].before
                a == After(i)
                out == history[i].ret[1]
            IN /\ \A ns \in TierClassification : \A title \in Titles(b, ns) :
                     /\ Cardinality(Group(a, ns, title)) = 1
                     /\ \A kept \in Group(a, ns, title) :
                           /\ kept \in Group(b, ns, title)
                           /\ \A id \in Group(b, ns, title) :
                                 IsoGeq(ProcessedAtOf(b, ns, kept), ProcessedAtOf(b, ns, id))
                           /\ a[DataKey(ns, kept)] = b[DataKey(ns, kept)]
                           /\ a[EmbKey(ns, kept)] = b[EmbKey(ns, kept)]
                           /\ a[TranscriptKey(ns, kept)] = b[TranscriptKey(ns, kept)]
                           /\ \A id \in Group(b, ns, title) \ {kept} : NoneOfFour(a, ns, id)
               /\ \A ns \in TierClassification : Titles(a, ns) = Titles(b, ns)
               /\ out.removed = Sum([ns \in TierClassification |->
                                        Cardinality(Listed(b, ns)) - Cardinality(Listed(a, ns))],
                                     TierClassification)
               /\ out.kept = Sum([ns \in TierClassification |-> Cardinality(Titles(b, ns))],
                                  TierClassification)

C20_Witness ==
    /\ Len(history) = 1
    /\ history[1].op = "dedup"
    /\ history[1].ret[1] = [kept |-> 3, removed |-> 2]
    /\ Cardinality(Group(history[1].before, ORDINARY, "Sprint")) = 3
    /\ Listed(redis, ORDINARY) = {"m2"}
    /\ NoneOfFour(redis, ORDINARY, "m1")
    /\ NoneOfFour(redis, ORDINARY, "m3")
    /\ Listed(redis, SENSITIVE) = {"m1", "m2"}

\* C21: no call other than delete_meeting or deduplicate removes a record,
\* an embedding or an index membership; add_meeting for one meeting id leaves
\* the record, embedding and index membership of every other id of both
\* namespaces as they were, also when titles coincide
C21_NoAutomaticDedup ==
    [][ history' # history =>
          LET c == history'[Len(history')]
          IN /\ c.op \notin {"delete", "dedup"} =>
                   \A ns \in TierClassification, id \in AllIds : ~RemovesSome(ns, id)
             /\ c.op = "add" =>
                   \A ns \in TierClassification, id \in AllIds :
                      (ns # c.ns \/ id # c.id) =>
                         /\ redis'[DataKey(ns, id)] = redis[DataKey(ns, id)]
                         /\ redis'[EmbKey(ns, id)] = redis[EmbKey(ns, id)]
                         /\ (id \in SMEMBERS(redis', IndexKey(ns)))
                               = (id \in SMEMBERS(redis, IndexKey(ns))) ]_vars

C21_Witness ==
    /\ Len(history) = 1
    /\ history[1].op = "add"
    /\ ~history[1].raised
    /\ history[1].ns = ORDINARY
    /\ history[1].id = "m1"
    /\ history[1].arg[1].insights.meeting_title = "Sprint"
    /\ Group(history[1].before, ORDINARY, "Sprint") = {"m1", "m2", "m3"}
    /\ Group(redis, ORDINARY, "Sprint") = {"m1", "m2", "m3"}
    /\ redis # history[1].before

\* the records stored in the two namespaces
StoredRecords(r) ==
    {<<ns, id>> \in TierClassification \X AllIds : Present(r, DataKey(ns, id))}

RecordOf(r, e) == JsonLoads(r[DataKey(e[1], e[2])][1]).processed_meeting

\* C22: get_stats aggregates the records stored at the time of the call:
\* total_meetings is the number of records of the two namespaces, the
\* tier_breakdown counts sum to it, total_decisions, total_actions and
\* total_questions are the sums over those records, and with no record
\* total_meetings is 0
C22_StatsOverStoredRecords ==
    \A i \in 1..Len(history) :
       history[i].op = "stats" =>
          LET b == history[i].before
              recs == StoredRecords(b)
              ret == history[i].ret[1]
          IN /\ ~history[i].raised
             /\ ret.total_meetings = Cardinality(recs)
             /\ recs # {} =>
                   /\ Sum(ret.tier_breakdown, DOMAIN ret.tier_breakdown) = ret.total_meetings
                   /\ \A t \in DOMAIN ret.tier_breakdown :
                         ret.tier_breakdown[t]
                            = Cardinality({e \in recs : RecordOf(b, e).tier = t})
                   /\ ret.total_decisions
                         = Sum([e \in recs |-> Len(RecordOf(b, e).insights.decisions)], recs)
                   /\ ret.total_actions
                         = Sum([e \in recs |-> Len(RecordOf(b, e).insights.action_items)], recs)
                   /\ ret.total_questions
                         = Sum([e \in recs |-> Len(RecordOf(b, e).insights.open_questions)], recs)

\* get_stats after a delete_meeting and an add_meeting changed the records of
\* both namespaces, and get_stats on a keyspace without records
C22_Witness ==
    /\ Len(history) = 2
    /\ history[1].op = "delete" /\ history[1].ns = ORDINARY
    /\ Present(history[1].before, DataKey(ORDINARY, history[1].id))
    /\ history[2].op = "stats" /\ ~history[2].raised
    /\ history[2].ret[1].total_meetings = 4
    /\ history[2].ret[1].tier_breakdown = [t \in TierClassification |-> 2]
    /\ history[2].ret[1].total_decisions > 0
    /\ history[2].ret[1].total_actions > 0

\* the ids of a namespace whose embedding and record are both stored and
\* both parse
Readable(r, ns) ==
    {id \in SMEMBERS(r, IndexKey(ns)) :
        /\ Present(r, EmbKey(ns, id)) /\ Present(r, DataKey(ns, id))
        /\ Parses(r[EmbKey(ns, id)][1]) /\ Parses(r[DataKey(ns, id)][1])}

\* the records of the two namespaces that parse
ReadableRecords(r) == {e \in StoredRecords(r) : Parses(r[DataKey(e[1], e[2])][1])}

\* C23: a record or embedding value that fails to parse is skipped by search
\* and by get_stats, which return the results of the remaining entries: the
\* scan does not fail
C23_ScanSkipsUnparsable ==
    \A i \in 1..Len(history) :
       LET c == history[i]
       IN /\ c.op = "search" =>
                /\ ~c.raised
                /\ c.arg[1].n_results = 5 =>
                      {c.ret[k].meeting_id : k \in 1..Len(c.ret)} = Readable(c.before, c.ns)
          /\ c.op = "stats" =>
                /\ ~c.raised
                /\ c.ret[1].total_meetings = Cardinality(ReadableRecords(c.before))

\* C24: the sentiments of the assembled record hold exactly one entry for
\* every distinct speaker of the input transcript's turns (of its raw text
\* when it has no turns), and none when it has neither
C24_OneSentimentPerInputSpeaker ==
    processed # None =>
        LET speakers == SpeakerOrder(SpeakerTurns(t_in[1]), << >>)
            sents == processed[1].sentiments
        IN /\ Len(sents) = Len(speakers)
           /\ {sents[k].speaker : k \in 1..Len(sents)}
                 = {speakers[k] : k \in 1..Len(speakers)}

IsZeroVector(v) == v.m = <<0, 0>>

\* C26: _cosine_similarity(a, b) returns exactly 0.0 when a or b is the zero
\* vector, returns the same for (b, a), and returns 1.0 within tolerance
\* when a equals b and is not the zero vector
C26_CosineEdgeCases ==
    \A i \in 1..Len(history) :
       history[i].op = "cosine" =>
          LET a == history[i].arg[1].a
              b == history[i].arg[1].b
              ret == history[i].ret
          IN /\ (IsZeroVector(a) \/ IsZeroVector(b)) => ret = PyFloat(0)
             /\ ret = CosineSimilarityFloat32(b, a)
             /\ (a = b /\ ~IsZeroVector(a)) =>
                   /\ ret.kind = "num"
                   /\ Abs(ret.score - ScoreScale) <= 1

\* a transcript built from a body without defect
WellFormed(t) ==
    /\ t.tier \in TierClassification
    /\ Len(t.title) >= TitleMinLength
    /\ t.raw_text # None
    /\ Len(t.raw_text[1]) >= TranscriptMinLength

\* C27: a process request whose tier is neither ordinary nor sensitive, whose
\* title is empty or whose transcript is shorter than the minimum is rejected
\* before the pipeline is entered: process() starts only on transcripts of
\* bodies without defect, and a rejection calls no port and writes no key
C27_MalformedRejected ==
    [][ /\ (pc = "idle" /\ pc' # "idle") => WellFormed(t_in'[1])
        /\ history' # history =>
              LET c == history'[Len(history')]
              IN /\ c.op = "process" /\ c.raised
                 /\ pc' = "idle"
                 /\ port_calls' = port_calls
                 /\ redis' = redis ]_vars

\* a request with an empty title and one with a transcript one unit short
\* were rejected, and the keyspace is as empty as before
C27_Witness ==
    /\ Len(history) = 2
    /\ history[1].arg[1].title = << >>
    /\ history[2].arg[1].transcript = ShortText
    /\ history[1].raised /\ history[2].raised
    /\ pc = "idle"
    /\ redis = history[2].before
    /\ redis = EmptyRedis

\* the callers of add_meeting are all back
Quiescent == \A c \in Clients : cl[c].pc = "idle"

\* the stored embedding of (ns, id) is not the embedding of the stored
\* record's document
Mismatched(r, ns, id) ==
    /\ Present(r, DataKey(ns, id)) /\ Present(r, EmbKey(ns, id))
    /\ JsonLoads(r[EmbKey(ns, id)][1])
          # GetEmbedding(JsonLoads(r[DataKey(ns, id)][1]).document)

\* C28: when add_meeting calls for one (namespace, meeting_id) interleave,
\* every call leaves the record and its index membership present when it
\* ends and no step of another add_meeting removes them, so they are present
\* in every final state (the witness is a final state whose record is one
\* call's and whose embedding is the other's)
C28_RecordAndIndexPresent ==
    [][ /\ \A c \in Clients :
              (cl[c].pc = "embed" /\ cl'[c].pc = "idle") =>
                 /\ Present(redis', DataKey(cl[c].self_ns, cl[c].meeting[1].meeting_id))
                 /\ cl[c].meeting[1].meeting_id \in SMEMBERS(redis', IndexKey(cl[c].self_ns))
        /\ \A ns \in TierClassification, id \in AllIds :
              /\ Present(redis, DataKey(ns, id)) => Present(redis', DataKey(ns, id))
              /\ id \in SMEMBERS(redis, IndexKey(ns)) => id \in SMEMBERS(redis', IndexKey(ns))
      ]_vars

\* two add_meeting calls for the ordinary m1 have ended; the record is one
\* call's and the embedding was computed from the other call's document
C28_Witness ==
    /\ Quiescent
    /\ n_ops = 2
    /\ Mismatched(redis, ORDINARY, "m1")
    /\ "m1" \in SMEMBERS(redis, IndexKey(ORDINARY))
    /\ \A ns \in TierClassification, id \in AllIds :
          <<ns, id>> # <<ORDINARY, "m1">> => ~Present(redis, DataKey(ns, id))

\* C29: a search that runs while add_meeting and delete_meeting calls change
\* its namespace never raises; an id of the index set whose embedding or
\* record is missing when read is skipped, and every result is built from
\* the embedding and the record read for its id, both present
C29_SearchSkipsPartial ==
    [][ /\ srch'.pc # "raised"
        /\ (srch.pc = "read_data" /\ srch'.pc # "read_data") =>
              LET emb_raw == srch.emb_raw
                  data_raw == redis[DataKey(srch.ns, srch.mid)]
              IN IF emb_raw = None \/ data_raw = None
                 THEN srch'.results = srch.results
                 ELSE /\ Len(srch'.results) = Len(srch.results) + 1
                      /\ SubSeq(srch'.results, 1, Len(srch.results)) = srch.results
                      /\ LET res == srch'.results[Len(srch'.results)]
                         IN /\ res.score = CosineSimilarity(srch.query_embedding,
                                                            emb_raw[1].json)
                            /\ res.content = data_raw[1].json.document
                            /\ res.metadata = data_raw[1].json.metadata
                            /\ res.meeting_id = srch.mid ]_vars

\* a search of the ordinary namespace ended while an add_meeting call had
\* written the record and the index membership of m2 but not yet its
\* embedding: m2 was read and skipped, m1 was returned
C29_Witness ==
    /\ srch.pc = "done"
    /\ srch.ns = ORDINARY
    /\ \E c \in Clients :
          /\ cl[c].pc = "embed" /\ cl[c].self_ns = ORDINARY
          /\ cl[c].meeting[1].meeting_id = "m2"
    /\ EmbKey(ORDINARY, "m2") \in srch.keys_read
    /\ DataKey(ORDINARY, "m2") \in srch.keys_read
    /\ ~Present(redis, EmbKey(ORDINARY, "m2"))
    /\ Len(srch.results) = 1
    /\ srch.results[1].meeting_id = "m1"

\* C30: on a pipeline constructed with enable_redaction=False a process()
\* call on a sensitive transcript has no redactor to call and calls none,
\* appends no 'redaction' audit entry, gives the extraction port the original
\* transcript, and stores the record under the sensitive namespace
C30_DisabledSkipsRedaction ==
    (Active /\ t_in[1].tier = SENSITIVE /\ ~enable_redaction) =>
        /\ Redactor(enable_redaction) = None
        /\ CountCalls(port_calls, "redact_transcript") = 0
        /\ redaction_result = None
        /\ ~Contains(Steps(audit_log), "redaction")
        /\ \A i \in 1..Len(port_calls) :
              /\ port_calls[i].port = "extract" => port_calls[i].arg = t_in[1]
              /\ port_calls[i].port = "add_meeting" =>
                    /\ port_calls[i].arg.store = SENSITIVE
                    /\ port_calls[i].arg.namespace = SENSITIVE
        /\ (pc = "returned" /\ ~foreign_writes) =>
              /\ Present(redis, DataKey(SENSITIVE, t_in[1].meeting_id))
              /\ redis[DataKey(ORDINARY, t_in[1].meeting_id)]
                    = redis_at_call[DataKey(ORDINARY, t_in[1].meeting_id)]

\* process() returned for a sensitive transcript whose raw text holds an
\* e-mail address, on a pipeline without redaction
C30_Witness ==
    /\ pc = "returned"
    /\ ~enable_redaction
    /\ t_in[1].tier = SENSITIVE
    /\ Truthy(t_in[1].raw_text) /\ Contains(t_in[1].raw_text[1], "a@x.com")
    /\ CountCalls(port_calls, "extract") = 1
    /\ ~foreign_writes
    /\ Present(redis, DataKey(SENSITIVE, t_in[1].meeting_id))

\* the text of a transcript: its raw_text when not empty, else one line
\* "[timestamp] speaker: text" per turn
TextHandedOver(t) ==
    IF t.raw_text # None /\ t.raw_text[1] # << >> THEN t.raw_text[1]
    ELSE IF t.turns = << >> THEN << >>
    ELSE Join("\n", [k \in 1..Len(t.turns) |->
                        <<"[", t.turns[k].timestamp, "]", t.turns[k].speaker, ":">>
                           \o t.turns[k].text])

\* the redaction port got the text of the input transcript, and extraction
\* got a transcript with the redacted text and the input's other fields but
\* turns
RedactedHandOver ==
    \A i \in 1..Len(port_calls) :
       /\ port_calls[i].port = "redact_transcript" =>
             port_calls[i].arg = TextHandedOver(t_in[1])
       /\ (port_calls[i].port = "extract" /\ redaction_result # None) =>
             LET t == port_calls[i].arg
             IN /\ t.raw_text = Some(redaction_result[1].redacted_text)
                /\ t.meeting_id = t_in[1].meeting_id
                /\ t.title = t_in[1].title
                /\ t.date = t_in[1].date
                /\ t.tier = t_in[1].tier
                /\ t.participants = t_in[1].participants

\* C31 as stated: the redaction port is handed raw_text when it is not
\* empty and else the flattened turns, and the transcript passed to
\* extraction has the redacted text and every other field, turns included,
\* equal to the input's
C31_RedactedKeepsAllFields ==
    Active =>
       /\ RedactedHandOver
       /\ \A i \in 1..Len(port_calls) :
             (port_calls[i].port = "extract" /\ redaction_result # None) =>
                port_calls[i].arg.turns = t_in[1].turns

\* C31, amended: the redaction port is handed raw_text when it is not empty
\* and else the flattened turns, and the transcript passed to extraction has
\* the redacted text, no turns, and meeting_id, title, date, tier and
\* participants equal to the input's
C31_RedactedDropsTurns ==
    Active =>
       /\ RedactedHandOver
       /\ \A i \in 1..Len(port_calls) :
             (port_calls[i].port = "extract" /\ redaction_result # None) =>
                port_calls[i].arg.turns = << >>

\* extraction was called after the redaction of a transcript that has turns
\* and no raw_text
C31_Witness ==
    /\ Active
    /\ redaction_result # None
    /\ t_in[1].turns # << >> /\ t_in[1].raw_text = None
    /\ CountCalls(port_calls, "redact_transcript") = 1
    /\ CountCalls(port_calls, "extract") = 1
    /\ redaction_result[1].redaction_count > 0

\* C32: the record assembled in step 5 has neither vector_id nor
\* processed_at set before the storage step, and has both once the storage
\* step has returned
C32_StampedByStorage ==
    processed # None =>
       /\ pc = "step6" => /\ processed[1].vector_id = None
                          /\ processed[1].processed_at = None
       /\ pc = "returned" => /\ processed[1].vector_id # None
                             /\ processed[1].processed_at # None

\* C33: _analyze_speaker gives 'negative' for the ratings 1 and 2, 'neutral'
\* for 3 and 'positive' for 4 and 5; a speaker without texts gets 'neutral'
\* with confidence 0.0 and the classifier is not called
C33_StarMapping ==
    \A i \in 1..Len(history) :
       history[i].op = "analyze_speaker" =>
          LET texts == history[i].arg[1].texts
              ret == history[i].ret
          IN /\ ret.result.speaker = history[i].arg[1].speaker
             /\ texts = << >> =>
                   /\ ret.result.overall_sentiment = "neutral"
                   /\ ret.result.confidence = "0.0"
                   /\ ret.result.key_phrases = << >>
                   /\ ret.classifier_calls = 0
             /\ texts # << >> =>
                   /\ ret.classifier_calls = 1
                   /\ ret.stars \in 1..5
                   /\ ret.stars \in {1, 2} => ret.result.overall_sentiment = "negative"
                   /\ ret.stars = 3 => ret.result.overall_sentiment = "neutral"
                   /\ ret.stars \in {4, 5} => ret.result.overall_sentiment = "positive"

\* _analyze_speaker returned for texts the classifier rated two stars
C33_Witness ==
    /\ Len(history) = 1
    /\ history[1].op = "analyze_speaker"
    /\ history[1].ret.stars = 2
    /\ history[1].ret.result.overall_sentiment = "negative"
    /\ history[1].ret.classifier_calls = 1

\* C34: after completed calls made one after another, none of which failed,
\* every meeting id of every namespace has its index membership, its record
\* and its embedding all three or none of them
C34_ThreeKeys ==
    (\A i \in 1..Len(history) : ~history[i].raised) =>
       \A ns \in TierClassification, id \in AllIds :
          /\ (id \in SMEMBERS(redis, IndexKey(ns))) = Present(redis, DataKey(ns, id))
          /\ Present(redis, DataKey(ns, id)) = Present(redis, EmbKey(ns, id))

\* add_meeting of a new id followed by delete_meeting of a stored one: the
\* added id has all three, the deleted id none
C34_Witness ==
    /\ Len(history) = 2
    /\ history[1].op = "add" /\ ~history[1].raised
    /\ history[1].ns = SENSITIVE /\ history[1].id = "m2"
    /\ ~Present(history[1].before, DataKey(SENSITIVE, "m2"))
    /\ history[2].op = "delete" /\ history[2].ns = SENSITIVE /\ history[2].id = "m1"
    /\ NoneOfThree(redis, SENSITIVE, "m1")
    /\ Present(redis, EmbKey(SENSITIVE, "m2"))
    /\ "m2" \in SMEMBERS(redis, IndexKey(SENSITIVE))

\* the keys of one namespace
KeysOf(ns) == {k \in Keys : KeyNamespace(k) = ns}

\* C35: the namespace named in the vector id add_meeting returns and in the
\* metadata it stores is the namespace of the keys it wrote, whatever the
\* namespace argument; and search on a store reads only keys of the store's
\* own namespace
C35_NamespaceOfKeys ==
    \A i \in 1..Len(history) :
       LET c == history[i]
       IN /\ (c.op = "add" /\ ~c.raised) =>
                LET named == c.ret[1][1]
                IN /\ ChangedKeys(c.before, After(i)) \subseteq KeysOf(named)
                   /\ Present(After(i), DataKey(named, c.id))
                   /\ JsonLoads(After(i)[DataKey(named, c.id)][1]).metadata.namespace = named
          /\ c.op = "search" =>
                SearchKeysRead(c.before, c.ns, c.arg[1].namespace) \subseteq KeysOf(c.ns)

\* C36: for a sensitive transcript on a pipeline with redaction enabled the
\* transcript given to extract() has no turns and the redaction port's
\* redacted text as raw_text, so the dialogue in the prompt context is the
\* redacted text
C36_OnlyRedactedReachesExtraction ==
    (Active /\ t_in[1].tier = SENSITIVE /\ enable_redaction) =>
       \A i \in 1..Len(port_calls) :
          port_calls[i].port = "extract" =>
             /\ redaction_result # None
             /\ \E j \in 1..(i - 1) : /\ port_calls[j].port = "redact_transcript"
                                      /\ ~port_calls[j].raised
             /\ port_calls[i].arg.turns = << >>
             /\ port_calls[i].arg.raw_text = Some(redaction_result[1].redacted_text)
             /\ ContextBody(port_calls[i].arg) = redaction_result[1].redacted_text

\* extraction was called for a sensitive transcript that carries turns and a
\* raw_text with an e-mail address, which the redaction replaced
C36_Witness ==
    /\ Active /\ t_in[1].tier = SENSITIVE /\ enable_redaction
    /\ t_in[1].turns # << >>
    /\ Truthy(t_in[1].raw_text) /\ Contains(t_in[1].raw_text[1], "a@x.com")
    /\ CountCalls(port_calls, "extract") = 1
    /\ redaction_result # None
    /\ ~Contains(redaction_result[1].redacted_text, "a@x.com")

\* C37 as stated: after a successful process() with no other writer the
\* processed_meeting that get_meeting returns for the meeting has the
\* vector_id of the returned ProcessedMeeting and the same sequence of
\* audit-log steps
C37_StoredAgreesWithReturned ==
    (pc = "returned" /\ ~foreign_writes) =>
        LET got == GetMeeting(redis, t_in[1].tier, processed[1].meeting_id)
        IN /\ got # None
           /\ got[1].processed_meeting.vector_id = processed[1].vector_id
           /\ Steps(got[1].processed_meeting.audit_log) = Steps(processed[1].audit_log)

\* C38 as stated: in every state reached through the process, delete and
\* dedup endpoints a transcript key exists only if the record of that id
\* exists in that namespace, and once the delete endpoint has answered the
\* raw transcript of the meeting is gone
C38_TranscriptFollowsRecord ==
    /\ \A ns \in TierClassification, id \in AllIds :
          Present(redis, TranscriptKey(ns, id)) => Present(redis, DataKey(ns, id))
    /\ (history # << >> /\ Last(history).op = "delete_endpoint") =>
          ~Present(redis, TranscriptKey(Last(history).ns, Last(history).id))

====
